---- MODULE Spec2Model ----
(***************************************************************************)
(* A model of the reactive_cache engine (src/cache/src): Signal, Memo,     *)
(* Effect, the LRU result cache, the memo stack and the effect stack.      *)
(*                                                                         *)
(* Every public operation is one action.  The engine is single-threaded    *)
(* and synchronous, so an action computes the whole call, nested calls     *)
(* included, with operators that thread a record st of the engine's state  *)
(* through the calls in the order the code makes them.  The record also    *)
(* carries a log of what was executed, kept in the history variable last.  *)
(***************************************************************************)
EXTENDS Integers, Sequences, FiniteSets, TLC

(***************************************************************************)
(* Bounds and program constants                                            *)
(***************************************************************************)
\* cell values are 0..MaxVal
MaxVal == 1
\* at most MaxLive Effect allocations exist at the same time
MaxLive == 2
\* at most MaxOrphans cache entries are left under the address of a destroyed
\* Memo that no later Memo was given
MaxOrphans == 1
\* src/cache/src/cache.rs:11
CACHE_CAP == 128

Vals == 0..MaxVal

(***************************************************************************)
(* The program under test: two Signals, five Memos and nine Effect         *)
(* closures, in the shapes of src/macros/tests.                            *)
(***************************************************************************)
Cells == {"A", "B"}
Memos == {"M1", "M2", "M3", "C", "D"}
Effects == {"R1", "R2", "R3", "R4", "R5", "R6", "R7", "R8", "R9"}
Observables == Cells \cup Memos
\* the identity of a memo outside Memos: an independent memo with a constant
\* closure that is read once and never again
Other == "other"

\* Expressions of closures:
\*   <<"const", n>>       a literal
\*   <<"sig", s>>         *s.get()
\*   <<"memo", m>>        m.get()
\*   <<"add", e1, e2>>    e1 + e2
\*   <<"mul", e1, e2>>    e1 * e2
\*   <<"if", c, e1, e2>>  if c != 0 { e1 } else { e2 }
\* Statements of Effect closures:
\*   <<"eval", e>>        let _ = e;
\*   <<"set", s, e>>      s.set(e);
\*   <<"new", r>>         Effect::new of the closure of r; the new Rc<Effect>
\*                        is handed to the program

\* the closure f of each Memo
MemoF(m) ==
    CASE m = "M1" -> <<"if", <<"sig", "A">>,
                             <<"add", <<"sig", "B">>, <<"const", 1>>>>,
                             <<"const", 0>>>>
      [] m = "M2" -> <<"mul", <<"memo", "M1">>, <<"const", 2>>>>
      [] m = "M3" -> <<"add", <<"sig", "B">>, <<"const", 1>>>>
      [] m = "C"  -> <<"add", <<"sig", "A">>, <<"sig", "B">>>>
      [] m = "D"  -> <<"mul", <<"memo", "C">>, <<"const", 2>>>>

\* the result type T of each Memo<T>, and of the independent memos
TypeOf(m) == IF m = "M3" THEN "i64" ELSE "i32"

\* the closure f of each Effect
EffectF(r) ==
    CASE r = "R1" -> << <<"eval", <<"memo", "M2">>>>, <<"eval", <<"memo", "M2">>>> >>
      [] r = "R2" -> << <<"eval", <<"if", <<"sig", "A">>, <<"sig", "B">>, <<"const", 0>>>>>> >>
      [] r = "R3" -> << <<"eval", <<"if", <<"sig", "A">>, <<"sig", "B">>, <<"const", 0>>>>>> >>
      [] r = "R4" -> << <<"set", "B", <<"sig", "A">>>> >>
      [] r = "R5" -> << <<"eval", <<"memo", "M1">>>> >>
      [] r = "R6" -> << <<"eval", <<"memo", "M1">>>> >>
      [] r = "R7" -> << <<"new", "R2">>, <<"eval", <<"memo", "M3">>>> >>
      [] r = "R8" -> << <<"set", "A", <<"sig", "B">>>> >>
      \* if B != 0 { A.set(if A != 0 { 0 } else { 1 }) } else { A.set(A) }
      [] r = "R9" -> << <<"set", "A",
                          <<"if", <<"sig", "B">>,
                                  <<"if", <<"sig", "A">>, <<"const", 0>>, <<"const", 1>>>>,
                                  <<"sig", "A">>>>>> >>

\* the Effects that the construction of Effect r creates: r and those its
\* closure constructs
Creates(r) ==
    {r} \cup {EffectF(r)[i][2] : i \in {j \in DOMAIN EffectF(r) : EffectF(r)[j][1] = "new"}}

\* the expression a statement evaluates
StmtExpr(stmt) == IF stmt[1] = "new" THEN <<"const", 0>> ELSE stmt[Len(stmt)]

\* the closure deps of the Effects that are built by Effect::new_with_deps
WithDeps == {"R3", "R5"}
EffectDeps(r) ==
    CASE r = "R3" -> << <<"eval", <<"sig", "B">>>> >>
      [] r = "R5" -> << <<"eval", <<"sig", "A">>>>, <<"eval", <<"sig", "B">>>> >>
      [] OTHER -> << >>

(***************************************************************************)
(* State                                                                   *)
(***************************************************************************)
VARIABLES
    value,         \* Signal.value of each cell
    dependents,    \* Signal.dependents / Memo.dependents: Vec<Weak<dyn IMemo>>
    effects,       \* Signal.effects: Vec<Weak<Effect>>
    CACHE,         \* the LRU cache, least recently used first
    MEMO_STACK,    \* memo_stack::MEMO_STACK
    EFFECT_STACK,  \* effect_stack::EFFECT_STACK
    alive,         \* the Effects whose Rc the caller still holds
    handles,       \* the Memos whose Rc the caller still holds
    held,          \* the number of Rc (owning references) to each Memo and
                   \* Effect that frames of the engine hold
    last,          \* history: the last public operation, its result and its log
    readNew,       \* history: the cells each live Effect read in the collecting
                   \* pass of its constructor
    readEver       \* history: the cells the closure f of each live Effect has
                   \* read in any of its executions

vars == <<value, dependents, effects, CACHE, MEMO_STACK, EFFECT_STACK, alive,
          handles, held, last, readNew, readEver>>

\* the engine state as one record, threaded through the calls of an operation.
\* Next to the variables it holds what exists only while an operation runs:
\*   log       what was executed so far
\*   flushing  the calls of flush_effects in progress, outermost first: each
\*             holds the RefMut of the effects list of its cell, and retain
\*             has kept the entries `kept` and is at entry i of the list
\*   building  the Effects whose constructor has not returned yet
\*   fault     << >>, or the state a panic left behind
Engine ==
    [value |-> value, dependents |-> dependents, effects |-> effects,
     cache |-> CACHE, memo_stack |-> MEMO_STACK, effect_stack |-> EFFECT_STACK,
     alive |-> alive, handles |-> handles, held |-> held, log |-> << >>,
     flushing |-> << >>, building |-> {}, fault |-> << >>]

Bool(b) == IF b THEN 1 ELSE 0

\* A log entry: event e on object o with value v, made while Effect by was on
\* top of the effect stack ("" when the stack was empty) with collecting flag c,
\* the memo stack was ms and the effect stack held ed entries
Log(st, e, o, v) ==
    LET n == Len(st.effect_stack)
    IN  [st EXCEPT !.log = Append(@,
            [e |-> e, o |-> o, v |-> v,
             by |-> IF n = 0 THEN "" ELSE st.effect_stack[n].effect,
             c  |-> IF n = 0 THEN 0 ELSE Bool(st.effect_stack[n].collecting),
             ms |-> st.memo_stack,
             ed |-> n])]

\* Rc::clone / Weak::upgrade of object x by a frame of the engine, and the drop
\* of such an Rc at the end of its scope
Hold(x, n, st) == [st EXCEPT !.held[x] = @ + n]
Release(x, n, st) == [st EXCEPT !.held[x] = @ - n]

RECURSIVE MemosIn(_)
\* the Memos whose Rc a closure captures: those its expression calls get() on
MemosIn(e) ==
    CASE e[1] = "memo" -> {e[2]}
      [] e[1] \in {"add", "mul"} -> MemosIn(e[2]) \cup MemosIn(e[3])
      [] e[1] = "if" -> MemosIn(e[2]) \cup MemosIn(e[3]) \cup MemosIn(e[4])
      [] OTHER -> {}
RECURSIVE Captures(_)
Captures(stmts) ==
    UNION {IF stmts[i][1] = "new" THEN Captures(EffectF(stmts[i][2]))
           ELSE MemosIn(StmtExpr(stmts[i])) : i \in DOMAIN stmts}

RECURSIVE MemoLive(_, _)
\* the strong count of Memo m is not zero: the caller, a frame of the engine,
\* or the closure of a live Effect or of a live Memo holds an Rc to it
MemoLive(m, st) ==
    \/ m \in st.handles
    \/ st.held[m] > 0
    \/ \E r \in st.alive : m \in Captures(EffectF(r))
    \/ \E m2 \in Memos \ {m} : m \in MemosIn(MemoF(m2)) /\ MemoLive(m2, st)

InSeq(x, s) == \E i \in DOMAIN s : s[i] = x
RemoveAt(s, i) == SubSeq(s, 1, i - 1) \o SubSeq(s, i + 1, Len(s))

\* The drop of the last Rc destroys an object with its fields: a destroyed
\* Effect or Memo drops its closure and the Rc the closure captured, and a
\* destroyed Memo drops its dependents Vec.  No Drop impl touches the cache.
Reaped(st) ==
    [st EXCEPT !.dependents =
        [o \in Observables |->
            IF o \in Memos /\ ~MemoLive(o, st) THEN << >> ELSE st.dependents[o]]]

(***************************************************************************)
(* Panics.  A failed assertion, unwrap or RefCell borrow unwinds every     *)
(* frame of the operation in progress: the operation does not return and   *)
(* the engine is left as it was at the panic, less what the unwinding      *)
(* drops.  The two stacks are statics that no destructor pops.             *)
(***************************************************************************)
\* the effects list of cell s is mutably borrowed by a flush_effects in progress
Flushing(s, st) == \E k \in DOMAIN st.flushing : st.flushing[k].cell = s

\* the effects list of s once the retain of its flush is unwound: the entries
\* it had kept, then the entry it was at and the ones after it
Retained(s, st) ==
    LET f == st.flushing[CHOOSE k \in DOMAIN st.flushing : st.flushing[k].cell = s]
    IN  f.kept \o SubSeq(st.effects[s], f.i, Len(st.effects[s]))

\* the unwinding drops the Rc that the frames held, the Effects that were
\* being constructed and the RefMut of every flush in progress
Unwound(st) ==
    Reaped([st EXCEPT
        !.held = [x \in DOMAIN st.held |-> 0],
        !.alive = @ \ st.building,
        !.building = {},
        !.effects = [s \in Cells |->
                        IF Flushing(s, st) THEN Retained(s, st) ELSE st.effects[s]],
        !.flushing = << >>])

\* the constructor of Effect r returns: r is no longer being constructed
Constructed(r, st) == [st EXCEPT !.building = @ \ {r}]

\* the retain of a flush returns: its RefMut is dropped
Flushed(st) == [st EXCEPT !.flushing = SubSeq(@, 1, Len(@) - 1)]

\* a panic at object o, of kind v: the log entry "panic" and, for the first
\* panic of an operation, the state it leaves
Panic(st, o, v) ==
    LET s1 == Log(st, "panic", o, v)
    IN  IF st.fault # << >> THEN s1 ELSE [s1 EXCEPT !.fault = <<s1>>]

\* what an operation leaves: the state it returns with, or the state its
\* panic left
Outcome(st) == IF st.fault = << >> THEN st ELSE Unwound(st.fault[1])

(***************************************************************************)
(* The result cache (src/cache/src/cache.rs): one entry per key, ordered   *)
(* from least to most recently used.  An entry is an Rc<dyn Any>: it has   *)
(* the type ty of the value that was put.                                  *)
(***************************************************************************)
CacheHas(c, k) == \E i \in DOMAIN c : c[i].key = k
CacheIdx(c, k) == CHOOSE i \in DOMAIN c : c[i].key = k

\* LruCache::get: a hit moves the entry to the most recently used end
LruGet(c, k) == RemoveAt(c, CacheIdx(c, k)) \o <<c[CacheIdx(c, k)]>>

\* LruCache::put: replaces the value of a present key, else inserts and, at
\* capacity, drops the least recently used entry first
LruPut(c, k, v) ==
    IF k # Other /\ CacheHas(c, k)
    THEN RemoveAt(c, CacheIdx(c, k)) \o <<[key |-> k, val |-> v, ty |-> TypeOf(k)]>>
    ELSE IF Len(c) >= CACHE_CAP
         THEN Append(Tail(c), [key |-> k, val |-> v, ty |-> TypeOf(k)])
         ELSE Append(c, [key |-> k, val |-> v, ty |-> TypeOf(k)])

\* LruCache::pop
LruPop(c, k) == IF k # Other /\ CacheHas(c, k) THEN RemoveAt(c, CacheIdx(c, k)) ELSE c

\* a bug: any entry of the stack with collecting = true counts, not the top
Collecting_any(st) ==
    \E i \in DOMAIN st.effect_stack : st.effect_stack[i].collecting

\* effect_stack::effect_peak().is_some_and(|e| e.collecting)
Collecting(st) ==
    /\ st.effect_stack # << >>
    /\ st.effect_stack[Len(st.effect_stack)].collecting

\* a bug: the entry stays in the cache
remove_from_cache_keep(key, st) == st

\* a bug: the whole cache is emptied
remove_from_cache_all(key, st) == [st EXCEPT !.cache = << >>]

remove_from_cache(key, st) == [st EXCEPT !.cache = LruPop(@, key)]

\* a bug: LruCache::peek in place of get, a hit does not promote the entry
touch_peek(key, st) ==
    IF Collecting(st)
    THEN [st  |-> remove_from_cache(key,
                      Log(st, "touch", key, IF CacheHas(st.cache, key) THEN 2 ELSE 3)),
          hit |-> FALSE, val |-> 0]
    ELSE IF key # Other /\ CacheHas(st.cache, key)
         THEN [st  |-> Log(st, "touch", key, 1),
               hit |-> TRUE,
               val |-> st.cache[CacheIdx(st.cache, key)].val]
         ELSE [st |-> Log(st, "touch", key, 0), hit |-> FALSE, val |-> 0]

\* a bug: no bypass of the cache while an Effect collects
touch_nobypass(key, st) ==
    IF key # Other /\ CacheHas(st.cache, key)
    THEN [st  |-> [Log(st, "touch", key, 1) EXCEPT !.cache = LruGet(@, key)],
          hit |-> TRUE,
          val |-> st.cache[CacheIdx(st.cache, key)].val]
    ELSE [st |-> Log(st, "touch", key, 0), hit |-> FALSE, val |-> 0]

\* a bug: the entry is returned whatever its type
touch_untyped(key, st) ==
    IF Collecting(st)
    THEN [st  |-> remove_from_cache(key,
                      Log(st, "touch", key, IF CacheHas(st.cache, key) THEN 2 ELSE 3)),
          hit |-> FALSE, val |-> 0]
    ELSE IF key # Other /\ CacheHas(st.cache, key)
         THEN [st  |-> [Log(st, "touch", key, 1) EXCEPT !.cache = LruGet(@, key)],
               hit |-> TRUE,
               val |-> st.cache[CacheIdx(st.cache, key)].val]
         ELSE [st |-> Log(st, "touch", key, 0), hit |-> FALSE, val |-> 0]

\* cache::touch: [st, hit, val].  The log entry "touch" tells what it found:
\* 0 a miss, 1 a hit, 2 a bypass that removed an entry, 3 a bypass that found
\* none, 4 an entry of another type than the Memo's, which LruCache::get has
\* moved to the most recently used end and rc.is::<T>() filters out
touch(key, st) ==
    IF Collecting(st)
    THEN [st  |-> remove_from_cache(key,
                      Log(st, "touch", key, IF CacheHas(st.cache, key) THEN 2 ELSE 3)),
          hit |-> FALSE, val |-> 0]
    ELSE IF key # Other /\ CacheHas(st.cache, key)
         THEN IF st.cache[CacheIdx(st.cache, key)].ty = TypeOf(key)
              THEN [st  |-> [Log(st, "touch", key, 1) EXCEPT !.cache = LruGet(@, key)],
                    hit |-> TRUE,
                    val |-> st.cache[CacheIdx(st.cache, key)].val]
              ELSE [st  |-> [Log(st, "touch", key, 4) EXCEPT !.cache = LruGet(@, key)],
                    hit |-> FALSE, val |-> 0]
         ELSE [st |-> Log(st, "touch", key, 0), hit |-> FALSE, val |-> 0]

\* a bug: the result is returned and not stored
store_in_cache_drop(key, val, st) == st

store_in_cache(key, val, st) == [st EXCEPT !.cache = LruPut(@, key, val)]

(***************************************************************************)
(* IObservable (src/cache/src/observable.rs)                               *)
(***************************************************************************)
\* a bug: the outermost Memo of the stack is recorded, not memo_stack::last()
dependency_collection_outer(o, st) ==
    IF /\ st.memo_stack # << >>
       /\ ~InSeq(st.memo_stack[1], st.dependents[o])
    THEN [st EXCEPT !.dependents[o] = Append(@, st.memo_stack[1])]
    ELSE st

\* IObservable::dependency_collection on observable o
dependency_collection(o, st) ==
    IF /\ st.memo_stack # << >>
       /\ ~InSeq(st.memo_stack[Len(st.memo_stack)], st.dependents[o])
    THEN [st EXCEPT !.dependents[o] = Append(@, st.memo_stack[Len(st.memo_stack)])]
    ELSE st

RECURSIVE invalidate_from(_, _, _)
\* a bug: the dependents of a cell are evicted, their own dependents are not
invalidate_from_shallow(o, i, st) ==
    IF i > Len(st.dependents[o])
    THEN st
    ELSE LET d  == st.dependents[o][i]
             s1 == Log(remove_from_cache(d, st), "inval", d, Bool(CacheHas(st.cache, d)))
         IN  invalidate_from(o, i + 1, s1)

\* a bug: an entry that does not upgrade is skipped and kept
invalidate_from_keep(o, i, st) ==
    IF i > Len(st.dependents[o])
    THEN st
    ELSE LET d  == st.dependents[o][i]
             s0 == Hold(d, 1, st)
             s1 == Log(remove_from_cache(d, s0), "inval", d, Bool(CacheHas(st.cache, d)))
             s2 == invalidate_from(d, 1, s1)
         IN  IF MemoLive(d, st)
             THEN invalidate_from(o, i + 1, Release(d, 1, s2))
             ELSE invalidate_from(o, i + 1, st)

\* IObservable::invalidate on observable o: the retain loop from index i on.
\* An entry that upgrades is evicted, invalidated in turn and kept; an entry
\* of a dropped Memo is removed from the list.
invalidate_from(o, i, st) ==
    IF i > Len(st.dependents[o])
    THEN st
    ELSE LET d  == st.dependents[o][i]
             s0 == Hold(d, 1, st)
             s1 == Log(remove_from_cache(d, s0), "inval", d, Bool(CacheHas(st.cache, d)))
             s2 == invalidate_from(d, 1, s1)
         IN  IF MemoLive(d, st)
             THEN invalidate_from(o, i + 1, Release(d, 1, s2))
             ELSE invalidate_from(o, i, [st EXCEPT !.dependents[o] = RemoveAt(@, i)])

\* a bug: nothing is invalidated
invalidate_none(o, st) == st

invalidate(o, st) == invalidate_from(o, 1, st)

(***************************************************************************)
(* Signal::get (src/cache/src/signal.rs): [st, val]                        *)
(***************************************************************************)
\* a bug: no Effect is recorded
SignalGet_untracked(s, st) ==
    LET s1 == dependency_collection(s, st)
    IN  [st |-> Log(s1, "read", s, s1.value[s]), val |-> s1.value[s]]

\* a bug: the collecting Effect is pushed whether it is listed or not
SignalGet_nodedup(s, st) ==
    LET s1  == dependency_collection(s, st)
        top == s1.effect_stack[Len(s1.effect_stack)]
        s2  == IF /\ s1.effect_stack # << >>
                  /\ top.collecting
               THEN [s1 EXCEPT !.effects[s] = Append(@, top.effect)]
               ELSE s1
    IN  [st |-> Log(s2, "read", s, s2.value[s]), val |-> s2.value[s]]

\* a bug: the Effect on top of the stack is recorded whatever its collecting flag
SignalGet_always(s, st) ==
    LET s1  == dependency_collection(s, st)
        top == s1.effect_stack[Len(s1.effect_stack)]
        s2  == IF /\ s1.effect_stack # << >>
                  /\ ~InSeq(top.effect, s1.effects[s])
               THEN [s1 EXCEPT !.effects[s] = Append(@, top.effect)]
               ELSE s1
    IN  [st |-> Log(s2, "read", s, s2.value[s]), val |-> s2.value[s]]

\* the second half of Signal::get: under a collecting top of the effect
\* stack the Effect is pushed onto the effects list unless it is there;
\* self.effects.borrow() fails while a flush of the cell holds the RefMut:
\* the log entry "panic" 8
Subscribe(s, st) ==
    LET top == st.effect_stack[Len(st.effect_stack)]
    IN  IF st.effect_stack # << >> /\ top.collecting
        THEN IF Flushing(s, st)
             THEN Panic(st, s, 8)
             ELSE IF ~InSeq(top.effect, st.effects[s])
                  THEN [st EXCEPT !.effects[s] = Append(@, top.effect)]
                  ELSE st
        ELSE st

SignalGet(s, st) ==
    LET s2 == Subscribe(s, dependency_collection(s, st))
    IN  [st |-> Log(s2, "read", s, s2.value[s]), val |-> s2.value[s]]

Pop(stack) == SubSeq(stack, 1, Len(stack) - 1)

\* effect_stack::effect_push / effect_pop (src/cache/src/effect_stack.rs)
effect_push(r, collecting, st) ==
    [st EXCEPT !.effect_stack = Append(@, [effect |-> r, collecting |-> collecting])]
\* a bug: the entry is left on the stack
effect_pop_keep(r, collecting, st) == st

\* effect_pop: the stack is not empty and the entry popped has the effect and
\* the flag of the call, or else the expect / assert fails: the log entry
\* "panic" (1 the stack is empty, 2 another effect, 3 another flag)
effect_pop(r, collecting, st) ==
    LET n   == Len(st.effect_stack)
        top == st.effect_stack[n]
        s1  == IF n = 0 THEN Panic(st, r, 1)
               ELSE IF top.effect # r THEN Panic(st, r, 2)
               ELSE IF top.collecting # collecting THEN Panic(st, r, 3)
               ELSE st
    IN  [s1 EXCEPT !.effect_stack = Pop(@)]

\* memo_stack::pop at the end of Memo::get of m.  What it pops is not looked
\* at by the code; the log entry "mispop" tells when it is not m
memo_stack_pop(m, st) ==
    LET n  == Len(st.memo_stack)
        s1 == IF n > 0 /\ st.memo_stack[n] = m THEN st ELSE Log(st, "mispop", m, 0)
    IN  [s1 EXCEPT !.memo_stack = Pop(@)]

RECURSIVE Eval(_, _), MemoGet(_, _), Exec(_, _, _), SignalSet(_, _, _), EffectNew(_, _)
RECURSIVE flush_from(_, _, _, _)

(***************************************************************************)
(* Memo::get (src/cache/src/memo.rs): [st, val]                            *)
(***************************************************************************)
\* a bug: the Rc of the cache key is never dropped
MemoGet_leak(m, st) ==
    LET s0 == Log(st, "get", m, 0)
        s1 == dependency_collection(m, s0)
        s2 == [s1 EXCEPT !.memo_stack = Append(@, m)]
        t  == touch(m, Hold(m, 2, s2))
        r  == IF t.hit
              THEN [st |-> t.st, val |-> t.val]
              ELSE LET c == Eval(MemoF(m), Log(t.st, "f", m, 0))
                   IN  [st |-> store_in_cache(m, c.val, c.st), val |-> c.val]
        s3 == [Release(m, 1, r.st) EXCEPT !.memo_stack = Pop(@)]
    IN  [st |-> Log(s3, "ret", m, r.val), val |-> r.val]

\* a bug: the Memo that reads this one is not recorded as its dependent
MemoGet_nodeps(m, st) ==
    LET s0 == Log(st, "get", m, 0)
        s2 == [s0 EXCEPT !.memo_stack = Append(@, m)]
        t  == touch(m, Hold(m, 2, s2))
        r  == IF t.hit
              THEN [st |-> t.st, val |-> t.val]
              ELSE LET c == Eval(MemoF(m), Log(t.st, "f", m, 0))
                   IN  [st |-> store_in_cache(m, c.val, c.st), val |-> c.val]
        s3 == [Release(m, 2, r.st) EXCEPT !.memo_stack = Pop(@)]
    IN  [st |-> Log(s3, "ret", m, r.val), val |-> r.val]

\* `this` (the upgraded self.weak) and `key` (its clone) are held until the
\* result is there
MemoGet(m, st) ==
    LET s0 == Log(st, "get", m, 0)
        s1 == dependency_collection(m, s0)
        s2 == [s1 EXCEPT !.memo_stack = Append(@, m)]
        t  == touch(m, Hold(m, 2, s2))
        r  == IF t.hit
              THEN [st |-> t.st, val |-> t.val]
              ELSE LET c == Eval(MemoF(m), Log(t.st, "f", m, 0))
                   IN  [st |-> store_in_cache(m, c.val, c.st), val |-> c.val]
        s3 == memo_stack_pop(m, Release(m, 2, r.st))
    IN  [st |-> Log(s3, "ret", m, r.val), val |-> r.val]

\* the evaluation of a closure expression: [st, val]
Eval(e, st) ==
    CASE e[1] = "const" -> [st |-> st, val |-> e[2]]
      [] e[1] = "sig"   -> SignalGet(e[2], st)
      [] e[1] = "memo"  -> MemoGet(e[2], st)
      [] e[1] = "add"   -> LET l == Eval(e[2], st)
                               r == Eval(e[3], l.st)
                           IN  [st |-> r.st, val |-> l.val + r.val]
      [] e[1] = "mul"   -> LET l == Eval(e[2], st)
                               r == Eval(e[3], l.st)
                           IN  [st |-> r.st, val |-> l.val * r.val]
      [] e[1] = "if"    -> LET c == Eval(e[2], st)
                           IN  IF c.val # 0 THEN Eval(e[3], c.st) ELSE Eval(e[4], c.st)

\* the execution of an Effect closure from statement i on
Exec(stmts, i, st) ==
    IF i > Len(stmts)
    THEN st
    ELSE LET s == stmts[i]
         IN  CASE s[1] = "eval" -> Exec(stmts, i + 1, Eval(s[2], st).st)
               [] s[1] = "set"  ->
                    LET v == Eval(s[3], st)
                    IN  Exec(stmts, i + 1, SignalSet(s[2], v.val, v.st).st)
               [] s[1] = "new"  -> Exec(stmts, i + 1, EffectNew(s[2], st))

(***************************************************************************)
(* Effect (src/cache/src/effect.rs)                                        *)
(***************************************************************************)
\* Effect::run: the top of the effect stack upgrades and is this Effect, or
\* else the unwrap / assert fails: the log entry "panic" (4 the stack is empty,
\* 5 the top is dropped, 6 another effect)
run(r, st) ==
    LET n   == Len(st.effect_stack)
        top == st.effect_stack[n].effect
        s1  == IF n = 0 THEN Panic(st, r, 4)
               ELSE IF top \notin st.alive /\ st.held[top] = 0 THEN Panic(st, r, 5)
               ELSE IF top # r THEN Panic(st, r, 6)
               ELSE st
    IN  Exec(EffectF(r), 1, Log(s1, "run", r, 0))

\* a bug: run is called with nothing pushed for it
run_untracked_nopush(r, st) == run(r, st)

\* a bug: a replay is pushed as a collecting pass
run_untracked_collecting(r, st) ==
    effect_pop(r, TRUE, run(r, effect_push(r, TRUE, st)))

run_untracked(r, st) ==
    effect_pop(r, FALSE, run(r, effect_push(r, FALSE, st)))

\* Effect::new
EffectNew(r, st) ==
    LET s0 == [st EXCEPT !.alive = @ \cup {r}, !.building = @ \cup {r}]
    IN  Constructed(r, effect_pop(r, TRUE, run(r, effect_push(r, TRUE, s0))))

\* a bug: the closure f is not run after deps
EffectNewWithDeps_norun(r, st) ==
    LET s0 == [st EXCEPT !.alive = @ \cup {r}]
        s1 == effect_push(r, TRUE, s0)
        s2 == Exec(EffectDeps(r), 1, Log(s1, "deps", r, 0))
    IN  effect_pop(r, TRUE, s2)

\* a bug: deps is not called
EffectNewWithDeps_nodeps(r, st) ==
    run_untracked(r, [st EXCEPT !.alive = @ \cup {r}])

\* a bug: f runs inside the collecting frame, after deps
EffectNewWithDeps_tracked(r, st) ==
    LET s0 == [st EXCEPT !.alive = @ \cup {r}]
        s1 == effect_push(r, TRUE, s0)
        s2 == Exec(EffectDeps(r), 1, Log(s1, "deps", r, 0))
    IN  effect_pop(r, TRUE, run(r, s2))

\* Effect::new_with_deps
EffectNewWithDeps(r, st) ==
    LET s0 == [st EXCEPT !.alive = @ \cup {r}, !.building = @ \cup {r}]
        s1 == effect_push(r, TRUE, s0)
        s2 == Exec(EffectDeps(r), 1, Log(s1, "deps", r, 0))
        s3 == effect_pop(r, TRUE, s2)
    IN  Constructed(r, run_untracked(r, s3))

(***************************************************************************)
(* Signal::set (src/cache/src/signal.rs): [st, val]                        *)
(***************************************************************************)
\* a bug: every entry is run and kept, whether it upgrades or not
flush_from_all(s, i, kept, st) ==
    IF i > Len(st.effects[s])
    THEN [st EXCEPT !.effects[s] = kept]
    ELSE LET e == st.effects[s][i]
         IN  flush_from(s, i + 1, Append(kept, e), run_untracked(e, st))

\* a bug: the list is walked from its last entry to its first
flush_from_reverse(s, i, kept, st) ==
    IF i > Len(st.effects[s])
    THEN [st EXCEPT !.effects[s] = kept]
    ELSE LET e == st.effects[s][Len(st.effects[s]) - i + 1]
         IN  IF e \in st.alive
             THEN flush_from(s, i + 1, <<e>> \o kept,
                             Release(e, 1, run_untracked(e, Hold(e, 1, st))))
             ELSE flush_from(s, i + 1, kept, st)

\* Signal::flush_effects: the retain loop from index i on; kept holds the
\* entries retained so far
flush_from(s, i, kept, st) ==
    IF i > Len(st.effects[s])
    THEN [st EXCEPT !.effects[s] = kept]
    ELSE LET e  == st.effects[s][i]
             s0 == [st EXCEPT !.flushing[Len(st.flushing)] =
                        [cell |-> s, i |-> i, kept |-> kept]]
         IN  IF e \in st.alive
             THEN flush_from(s, i + 1, Append(kept, e),
                             Release(e, 1, run_untracked(e, Hold(e, 1, s0))))
             ELSE flush_from(s, i + 1, kept, st)

\* a bug: dead entries are pruned and the live Effects are not run
flush_effects_prune(s, st) ==
    [st EXCEPT !.effects[s] = SelectSeq(@, LAMBDA e : e \in st.alive)]

\* self.effects.borrow_mut().retain(..): while a flush_effects of the same
\* cell is in progress the borrow fails: the log entry "panic" 7
flush_effects(s, st) ==
    IF Flushing(s, st)
    THEN Panic(st, s, 7)
    ELSE LET s0 == [st EXCEPT !.flushing =
                        Append(@, [cell |-> s, i |-> 1, kept |-> << >>])]
         IN  Flushed(flush_from(s, 1, << >>, s0))

OnPropertyChanging(s, st) == invalidate(s, st)
OnPropertyChanged(s, st) == flush_effects(s, st)

\* a bug: no comparison with the current value
SignalSet_always(s, v, st) ==
    LET s1 == OnPropertyChanging(s, Log(st, "changing", s, st.value[s]))
        s2 == Log([s1 EXCEPT !.value[s] = v], "store", s, v)
        s3 == OnPropertyChanged(s, s2)
    IN  [st |-> s3, val |-> TRUE]

\* a bug: the reactions are replayed before the new value is stored
SignalSet_storelast(s, v, st) ==
    IF st.value[s] = v
    THEN [st |-> st, val |-> FALSE]
    ELSE LET s1 == OnPropertyChanging(s, Log(st, "changing", s, st.value[s]))
             s2 == OnPropertyChanged(s, s1)
             s3 == Log([s2 EXCEPT !.value[s] = v], "store", s, v)
         IN  [st |-> s3, val |-> TRUE]

SignalSet(s, v, st) ==
    IF st.value[s] = v
    THEN [st |-> st, val |-> FALSE]
    ELSE LET s1 == OnPropertyChanging(s, Log(st, "changing", s, st.value[s]))
             s2 == Log([s1 EXCEPT !.value[s] = v], "store", s, v)
             s3 == OnPropertyChanged(s, s2)
         IN  [st |-> s3, val |-> TRUE]

(***************************************************************************)
(* Independent memos: Memo::get on a memo outside Memos whose closure is a *)
(* constant, read for the first time                                       *)
(***************************************************************************)
\* a bug: a full cache keeps its entries and drops the new results
OtherMemoGets_keepold(n, st) ==
    LET all == st.cache \o [i \in 1..n |-> [key |-> Other, val |-> 0, ty |-> TypeOf(Other)]]
    IN  [st EXCEPT !.cache =
            IF Len(all) > CACHE_CAP THEN SubSeq(all, 1, CACHE_CAP) ELSE all]

\* n such reads in a row.  Each one misses (the key is new), runs its
\* closure and puts the result: LruCache::put appends the entry and, at
\* capacity, drops the least recently used one, so the n reads leave the
\* last CACHE_CAP entries of the old cache followed by the n new entries.
OtherMemoGets(n, st) ==
    LET all == st.cache \o [i \in 1..n |-> [key |-> Other, val |-> 0, ty |-> TypeOf(Other)]]
    IN  [st EXCEPT !.cache =
            IF Len(all) > CACHE_CAP
            THEN SubSeq(all, Len(all) - CACHE_CAP + 1, Len(all))
            ELSE all]

\* how many independent memos one FillCache reads: with two entries of Memos
\* cached, one short of evicting both
FillSize == CACHE_CAP - 1

(***************************************************************************)
(* Actions: one per public operation, called with both stacks as they are  *)
(***************************************************************************)
\* the cells that Effect r read itself (not a reaction replayed inside it):
\* in a collecting pass, and in an execution of its closure f
CollectReads(log, r) ==
    {log[i].o : i \in {j \in DOMAIN log :
        log[j].e = "read" /\ log[j].by = r /\ log[j].c = 1}}
BodyReads(log, r) ==
    {log[i].o : i \in {j \in DOMAIN log :
        log[j].e = "read" /\ log[j].by = r /\ (log[j].c = 0 \/ r \notin WithDeps)}}

Commit(st) ==
    /\ value' = st.value
    /\ dependents' = st.dependents
    /\ effects' = st.effects
    /\ CACHE' = st.cache
    /\ MEMO_STACK' = st.memo_stack
    /\ EFFECT_STACK' = st.effect_stack
    /\ alive' = st.alive
    /\ handles' = st.handles
    /\ held' = st.held
    /\ readEver' = [r \in Effects |->
            IF r \in st.alive THEN readEver[r] \cup BodyReads(st.log, r) ELSE {}]

Done(op, arg, v, ret, log) ==
    last' = [op |-> op, arg |-> arg, v |-> v, ret |-> ret, log |-> log]

\* the Effect allocations that still exist: a strong or a weak reference remains
Subscribed(r) == \E s \in Cells : InSeq(r, effects[s])
Allocated == {r \in Effects : r \in alive \/ Subscribed(r)}

\* what the caller gets: the value returned, or -1 when the call panicked
Ret(st, v) == IF st.fault = << >> THEN v ELSE -1

\* the Effects whose constructor ran in the log
Built(log) ==
    {log[i].o : i \in {j \in DOMAIN log :
        log[j].e = "run" /\ log[j].c = 1 /\ log[j].by = log[j].o}}

DoSignalSet(s, v) ==
    LET r == SignalSet(s, v, Engine)
        o == Outcome(r.st)
        b == Built(o.log)
    IN  /\ Commit(o)
        /\ Done("set", s, v, Ret(r.st, Bool(r.val)), o.log)
        /\ readNew' = IF b = {} THEN readNew
                      ELSE [x \in Effects |->
                               IF x \in b THEN CollectReads(o.log, x) ELSE readNew[x]]

DoSignalGet(s) ==
    LET r == SignalGet(s, Engine)
        o == Outcome(r.st)
    IN  /\ Commit(o)
        /\ Done("sget", s, 0, Ret(r.st, r.val), o.log)
        /\ UNCHANGED readNew

DoMemoGet(m) ==
    LET r == MemoGet(m, Engine)
        o == Outcome(r.st)
    IN  /\ m \in handles
        /\ Commit(o)
        /\ Done("get", m, 0, Ret(r.st, r.val), o.log)
        /\ UNCHANGED readNew

DoEffectNew(r) ==
    /\ Creates(r) \cap Allocated = {}
    /\ Captures(EffectF(r)) \subseteq handles
    /\ Cardinality(Allocated) + Cardinality(Creates(r)) <= MaxLive
    /\ LET st == Outcome(EffectNew(r, Engine))
       IN  /\ Commit(st)
           /\ Done("new", r, 0, 0, st.log)
           /\ readNew' = [x \in Effects |->
                    IF x \in Creates(r) THEN CollectReads(st.log, x) ELSE readNew[x]]

DoEffectNewWithDeps(r) ==
    /\ r \notin Allocated
    /\ Captures(EffectF(r)) \subseteq handles
    /\ Cardinality(Allocated) < MaxLive
    /\ LET st == Outcome(EffectNewWithDeps(r, Engine))
       IN  /\ Commit(st)
           /\ Done("new_with_deps", r, 0, 0, st.log)
           /\ readNew' = [readNew EXCEPT ![r] = CollectReads(st.log, r)]

\* the caller drops its Rc<Effect>
DropEffect(r) ==
    /\ r \in alive
    /\ alive' = alive \ {r}
    /\ dependents' = Reaped([Engine EXCEPT !.alive = alive \ {r}]).dependents
    /\ readNew' = [readNew EXCEPT ![r] = {}]
    /\ readEver' = [readEver EXCEPT ![r] = {}]
    /\ UNCHANGED <<value, effects, CACHE, MEMO_STACK, EFFECT_STACK, handles, held>>
    /\ Done("drop", r, 0, 0, << >>)

\* the caller drops its Rc<Memo>
DropMemo(m) ==
    /\ m \in handles
    /\ handles' = handles \ {m}
    /\ dependents' = Reaped([Engine EXCEPT !.handles = handles \ {m}]).dependents
    /\ UNCHANGED <<value, effects, CACHE, MEMO_STACK, EFFECT_STACK, alive, held,
                   readNew, readEver>>
    /\ Done("drop_memo", m, 0, 0, << >>)

\* no Weak to the allocation of Memo m is left: its memory can be given out
\* again
MemoFreed(m) ==
    /\ ~MemoLive(m, Engine)
    /\ \A o \in Observables : ~InSeq(m, dependents[o])

\* Memo::new with the closure MemoF(m), after the Memo that had the closure
\* was destroyed and freed.  The allocator may give the new Memo the address
\* of the old one (reuse) or another: the cache key is the address, so an
\* entry the old Memo left is then under the new Memo's key, or under a key
\* that no Memo has.
Orphans == {i \in DOMAIN CACHE : CACHE[i].key = Other}
NewMemo(m, reuse) ==
    /\ MemoFreed(m)
    /\ (~reuse /\ CacheHas(CACHE, m)) => Cardinality(Orphans) < MaxOrphans
    /\ MemosIn(MemoF(m)) \subseteq handles
    /\ handles' = handles \cup {m}
    /\ CACHE' = IF reuse THEN CACHE
                ELSE [i \in DOMAIN CACHE |->
                        IF CACHE[i].key = m
                        THEN [key |-> Other, val |-> CACHE[i].val, ty |-> CACHE[i].ty]
                        ELSE CACHE[i]]
    /\ UNCHANGED <<value, dependents, effects, MEMO_STACK, EFFECT_STACK, alive, held,
                   readNew, readEver>>
    /\ Done("new_memo", m, Bool(reuse), 0, << >>)

\* Memo::new with the closure MemoF(m) when the allocator gives the new Memo
\* the address that the destroyed and freed Memo old had: the entry that old
\* left in the cache is under the key of the new Memo
NewMemoAt(m, old) ==
    /\ m # old
    /\ MemoFreed(m) /\ MemoFreed(old)
    /\ CacheHas(CACHE, old) /\ ~CacheHas(CACHE, m)
    /\ MemosIn(MemoF(m)) \subseteq handles
    /\ handles' = handles \cup {m}
    /\ CACHE' = [i \in DOMAIN CACHE |->
                    IF CACHE[i].key = old
                    THEN [key |-> m, val |-> CACHE[i].val, ty |-> CACHE[i].ty]
                    ELSE CACHE[i]]
    /\ UNCHANGED <<value, dependents, effects, MEMO_STACK, EFFECT_STACK, alive, held,
                   readNew, readEver>>
    /\ Done("new_memo_at", m, 0, 0, << >>)

\* IObservable::invalidate called on a cell by the program
DoInvalidate(s) ==
    LET st == invalidate(s, Engine)
    IN  /\ Commit(st)
        /\ Done("invalidate", s, 0, 0, st.log)
        /\ UNCHANGED readNew

\* the caller reads FillSize independent memos for the first time
FillCache ==
    LET st == OtherMemoGets(FillSize, Engine)
    IN  /\ Commit(st)
        /\ Done("fill", Other, 0, 0, << >>)
        /\ UNCHANGED readNew

Init ==
    /\ value \in [Cells -> Vals]
    /\ dependents = [o \in Observables |-> << >>]
    /\ effects = [s \in Cells |-> << >>]
    /\ CACHE = << >>
    /\ MEMO_STACK = << >>
    /\ EFFECT_STACK = << >>
    /\ alive = {}
    /\ handles = Memos
    /\ held = [x \in Memos \cup Effects |-> 0]
    /\ last = [op |-> "init", arg |-> "", v |-> 0, ret |-> 0, log |-> << >>]
    /\ readNew = [r \in Effects |-> {}]
    /\ readEver = [r \in Effects |-> {}]

\* a program that builds, runs and drops Effects over the Signals and the
\* chain of Memos M2 -> M1
CoreMemos == {"M1", "M2"}
CoreEffects == {"R1", "R2", "R3", "R4"}
Next ==
    \/ \E s \in Cells, v \in Vals : DoSignalSet(s, v)
    \/ \E s \in Cells : DoSignalGet(s)
    \/ \E m \in CoreMemos : DoMemoGet(m)
    \/ \E r \in CoreEffects \ WithDeps : DoEffectNew(r)
    \/ \E r \in CoreEffects \cap WithDeps : DoEffectNewWithDeps(r)
    \/ \E r \in CoreEffects : DropEffect(r)

Spec == Init /\ [][Next]_vars

\* a program that also fills the cache with the results of other memos; its
\* Effects are the one that reads through the Memos and the one that writes
LruEffects == {"R1", "R4"}
NextLRU ==
    \/ \E s \in Cells, v \in Vals : DoSignalSet(s, v)
    \/ \E m \in CoreMemos : DoMemoGet(m)
    \/ \E r \in LruEffects : DoEffectNew(r)
    \/ \E r \in LruEffects : DropEffect(r)
    \/ FillCache

SpecLRU == Init /\ [][NextLRU]_vars

\* a program of Effects built by Effect::new_with_deps, over the Signals and
\* the Memo M1
NextDeps ==
    \/ \E s \in Cells, v \in Vals : DoSignalSet(s, v)
    \/ DoMemoGet("M1")
    \/ \E r \in WithDeps : DoEffectNewWithDeps(r)
    \/ \E r \in WithDeps : DropEffect(r)

SpecDeps == Init /\ [][NextDeps]_vars

\* a program that drops and rebuilds the Memos of the chain M2 -> M1
NextDrop ==
    \/ \E s \in Cells, v \in Vals : DoSignalSet(s, v)
    \/ \E m \in CoreMemos : DoMemoGet(m)
    \/ \E m \in CoreMemos : DropMemo(m)
    \/ \E m \in CoreMemos, reuse \in BOOLEAN : NewMemo(m, reuse)
    \/ \E s \in Cells : DoInvalidate(s)

SpecDrop == Init /\ [][NextDrop]_vars

\* a program that drops its handles to the Memos of the chain and to the
\* Effect that reads through them
NextOwn ==
    \/ \E s \in Cells, v \in Vals : DoSignalSet(s, v)
    \/ \E m \in CoreMemos : DoMemoGet(m)
    \/ DoEffectNew("R1")
    \/ DropEffect("R1")
    \/ \E m \in CoreMemos : DropMemo(m)

SpecOwn == Init /\ [][NextOwn]_vars

\* a program that writes and invalidates the Signals, with a Memo that never
\* reads A, the Effect that reads through the chain and the one that writes
InvalMemos == {"M1", "M2", "M3"}
NextInval ==
    \/ \E s \in Cells, v \in Vals : DoSignalSet(s, v)
    \/ \E s \in Cells : DoInvalidate(s)
    \/ \E m \in InvalMemos : DoMemoGet(m)
    \/ \E r \in LruEffects : DoEffectNew(r)
    \/ \E r \in LruEffects : DropEffect(r)

SpecInval == Init /\ [][NextInval]_vars

\* a program whose Effects read the same Memo, one directly and one through
\* another Memo, next to the Effect that writes
FlushEffects == {"R1", "R4", "R6"}
NextFlush ==
    \/ \E s \in Cells, v \in Vals : DoSignalSet(s, v)
    \/ \E m \in CoreMemos : DoMemoGet(m)
    \/ \E r \in FlushEffects : DoEffectNew(r)
    \/ \E r \in FlushEffects : DropEffect(r)

SpecFlush == Init /\ [][NextFlush]_vars

\* a program that reads two Memos that do not read each other, and other
\* memos that fill the cache
FillMemos == {"M1", "M3"}
NextFill ==
    \/ \E s \in Cells, v \in Vals : DoSignalSet(s, v)
    \/ \E m \in FillMemos : DoMemoGet(m)
    \/ FillCache

SpecFill == Init /\ [][NextFill]_vars

\* a program that writes A only, with an Effect whose closure constructs
\* another Effect and then reads a Memo, an Effect whose closure writes A,
\* and the Effect that reads through the chain of Memos
NestEffects == {"R1", "R7", "R8"}
NestMemos == {"M2", "M3"}
NextNest ==
    \/ \E v \in Vals : DoSignalSet("A", v)
    \/ \E m \in NestMemos : DoMemoGet(m)
    \/ \E r \in NestEffects : DoEffectNew(r)
    \/ \E r \in NestEffects \cup {"R2"} : DropEffect(r)

SpecNest == Init /\ [][NextNest]_vars

\* the same program, which also reads the Signals and builds an Effect by
\* Effect::new_with_deps: every public operation, called by the program and
\* inside closures.  The program keeps R1, R5 and R7 once it has built them;
\* it drops the writing Effect R8 and the Effect R2 that R7 builds
OpsDropped == {"R2", "R8"}
NextOps ==
    \/ \E v \in Vals : DoSignalSet("A", v)
    \/ \E s \in Cells : DoSignalGet(s)
    \/ \E m \in NestMemos : DoMemoGet(m)
    \/ \E r \in NestEffects : DoEffectNew(r)
    \/ DoEffectNewWithDeps("R5")
    \/ \E r \in OpsDropped : DropEffect(r)

SpecOps == Init /\ [][NextOps]_vars

\* the program of complex_dependency_memo_test: A = 10, B = 5, C = A + B,
\* D = C * 2; the cells are written and the Memos are read in any order
DiamondMemos == {"C", "D"}
DiamondVals(s) == IF s = "A" THEN {10, 20} ELSE {5, 6}
InitDiamond ==
    /\ value = [s \in Cells |-> IF s = "A" THEN 10 ELSE 5]
    /\ dependents = [o \in Observables |-> << >>]
    /\ effects = [s \in Cells |-> << >>]
    /\ CACHE = << >>
    /\ MEMO_STACK = << >>
    /\ EFFECT_STACK = << >>
    /\ alive = {}
    /\ handles = Memos
    /\ held = [x \in Memos \cup Effects |-> 0]
    /\ last = [op |-> "init", arg |-> "", v |-> 0, ret |-> 0, log |-> << >>]
    /\ readNew = [r \in Effects |-> {}]
    /\ readEver = [r \in Effects |-> {}]
NextDiamond ==
    \/ \E s \in Cells : \E v \in DiamondVals(s) : DoSignalSet(s, v)
    \/ \E m \in DiamondMemos : DoMemoGet(m)

SpecDiamond == InitDiamond /\ [][NextDiamond]_vars

\* a program that drops the Memos and builds them again, at a new address or
\* at the address of a dropped Memo, which may be a Memo of another type
TypeMemos == {"M1", "M3"}
NextTypes ==
    \/ \E v \in Vals : DoSignalSet("B", v)
    \/ \E m \in TypeMemos : DoMemoGet(m)
    \/ \E m \in TypeMemos \cup {"M2"} : DropMemo(m)
    \/ \E m \in TypeMemos, reuse \in BOOLEAN : NewMemo(m, reuse)
    \/ \E m, old \in TypeMemos : NewMemoAt(m, old)

SpecTypes == Init /\ [][NextTypes]_vars

\* the last operation panicked: the program is over
Faulted == \E i \in DOMAIN last.log : last.log[i].e = "panic"

\* a replay of Effect r constructs no Effect that is still allocated
FreshReplay(s) ==
    \A r \in alive : InSeq(r, effects[s]) => (Creates(r) \ {r}) \cap Allocated = {}

\* a program with an Effect that writes a cell it reads and an Effect whose
\* closure constructs an Effect, which are replayed by the writes of the
\* program; the program stops at the first panic
ReentEffects == {"R7", "R9"}
NextReent ==
    \/ \E s \in Cells, v \in Vals : ~Faulted /\ FreshReplay(s) /\ DoSignalSet(s, v)
    \/ \E r \in ReentEffects : ~Faulted /\ DoEffectNew(r)
    \/ \E r \in ReentEffects \cup {"R2"} : ~Faulted /\ DropEffect(r)

SpecReent == Init /\ [][NextReent]_vars

(***************************************************************************)
(* What the log of an operation tells                                      *)
(***************************************************************************)
Events(log, e) == {i \in DOMAIN log : log[i].e = e}
Count(log, e, o) == Cardinality({i \in Events(log, e) : log[i].o = o})
IsEffectOp == last.op \in {"new", "new_with_deps"}

\* the value of cell s when entry i of the log was made: the one the first
\* later write replaced, or else the value the cell has now
ValueAt(log, i, s) ==
    LET later == {j \in Events(log, "changing") : j >= i /\ log[j].o = s}
    IN  IF later = {} THEN value[s]
        ELSE log[CHOOSE j \in later : \A k \in later : j <= k].v

RECURSIVE PureEval(_, _)
\* what a closure expression computes from cell values vals with no cache
PureEval(e, vals) ==
    CASE e[1] = "const" -> e[2]
      [] e[1] = "sig"   -> vals[e[2]]
      [] e[1] = "memo"  -> PureEval(MemoF(e[2]), vals)
      [] e[1] = "add"   -> PureEval(e[2], vals) + PureEval(e[3], vals)
      [] e[1] = "mul"   -> PureEval(e[2], vals) * PureEval(e[3], vals)
      [] e[1] = "if"    -> IF PureEval(e[2], vals) # 0
                           THEN PureEval(e[3], vals)
                           ELSE PureEval(e[4], vals)

RECURSIVE PureReads(_, _)
\* the cells a closure expression reads from cell values vals with no cache
PureReads(e, vals) ==
    CASE e[1] = "const" -> {}
      [] e[1] = "sig"   -> {e[2]}
      [] e[1] = "memo"  -> PureReads(MemoF(e[2]), vals)
      [] e[1] = "add"   -> PureReads(e[2], vals) \cup PureReads(e[3], vals)
      [] e[1] = "mul"   -> PureReads(e[2], vals) \cup PureReads(e[3], vals)
      [] e[1] = "if"    -> PureReads(e[2], vals) \cup
                           (IF PureEval(e[2], vals) # 0
                            THEN PureReads(e[3], vals)
                            ELSE PureReads(e[4], vals))

\* the cells the statements of an Effect closure read; a statement reads the
\* cells of its expression
BodyCells(stmts, vals) ==
    UNION {PureReads(StmtExpr(stmts[i]), vals) : i \in DOMAIN stmts}

(***************************************************************************)
(* C1: every Memo::get, called by the program or inside a reaction, returns *)
(* the value its closure computes from the cell values of that moment with *)
(* no cache; a stale cached result is never returned.                      *)
(***************************************************************************)
C1_NoStaleResult ==
    \A i \in Events(last.log, "ret") :
        last.log[i].v =
            PureEval(MemoF(last.log[i].o), [s \in Cells |-> ValueAt(last.log, i, s)])

\* reached: during a write, after the invalidation, a replayed reaction read
\* M2, whose closure ran again, while results of other memos fill the cache
C1_Witness ==
    /\ last.op = "set" /\ last.ret = 1
    /\ CacheHas(CACHE, Other)
    /\ \E i, j, k \in DOMAIN last.log :
        /\ i < j /\ j < k
        /\ last.log[i].e = "inval" /\ last.log[i].o = "M2" /\ last.log[i].v = 1
        /\ last.log[j].e = "f" /\ last.log[j].o = "M2"
        /\ last.log[k].e = "ret" /\ last.log[k].o = "M2"

(***************************************************************************)
(* C2: Signal::set(v) with v equal to the current value returns false and  *)
(* changes nothing: value, dependents and effects lists (dead entries      *)
(* included), cache and both stacks stay as they are, and nothing is       *)
(* executed.                                                               *)
(***************************************************************************)
C2_IdempotentWrite ==
    [][(last'.op = "set" /\ last'.v = value[last'.arg]) =>
        /\ last'.ret = 0
        /\ last'.log = << >>
        /\ UNCHANGED <<value, dependents, effects, CACHE, MEMO_STACK, EFFECT_STACK,
                       alive, handles, held>>
      ]_vars

\* reached: a write of the current value that returned false, on a cell with
\* a cached dependent, a live subscriber and a dead subscriber
C2_Witness ==
    /\ last.op = "set" /\ last.ret = 0 /\ last.v = value[last.arg]
    /\ \E m \in Memos : InSeq(m, dependents[last.arg]) /\ CacheHas(CACHE, m)
    /\ \E r \in alive : InSeq(r, effects[last.arg])
    /\ \E r \in Effects \ alive : InSeq(r, effects[last.arg])

(***************************************************************************)
(* C3 as stated: a value-changing Signal::set on S executes exactly once,  *)
(* before it returns true, the body of every live reaction built by        *)
(* Effect::new whose construction read S directly or through memos.        *)
(***************************************************************************)
C3_ExactlyOncePerSet ==
    (last.op = "set" /\ last.ret = 1) =>
        \A r \in alive \ WithDeps :
            last.arg \in readNew[r] => Count(last.log, "run", r) = 1

\* the value-changing writes an operation made to cells that r read in its
\* collecting pass
WritesSeenBy(log, r) == {i \in Events(log, "store") : log[i].o \in readNew[r]}

(***************************************************************************)
(* C3 amended: before the set returns true the body is executed exactly    *)
(* once for every value-changing write made during the call to a cell the  *)
(* reaction read at construction: once for the set on S itself and once    *)
(* more for each nested write by a replayed reaction body.                 *)
(***************************************************************************)
C3_OncePerWrite ==
    (last.op = "set" /\ last.ret = 1) =>
        \A r \in alive \ WithDeps :
            last.arg \in readNew[r] =>
                /\ Count(last.log, "run", r) = Cardinality(WritesSeenBy(last.log, r))
                /\ Count(last.log, "run", r) >= 1

\* reached: a set on A, which R1 read through M2 and M1, replayed R1 once
C3_Witness ==
    /\ last.op = "set" /\ last.ret = 1 /\ last.arg = "A"
    /\ "R1" \in alive /\ "A" \in readNew["R1"]
    /\ Count(last.log, "run", "R1") = 1
    /\ \E i \in Events(last.log, "f") : last.log[i].by = "R1"

(***************************************************************************)
(* C4 as stated: with A, M1 reading A and M2 reading M1 all cached, a      *)
(* value-changing write to A runs a memo closure only inside a replayed    *)
(* reaction, and the next M2.get() executes the closures of M1 and of M2   *)
(* exactly once each.                                                      *)
(***************************************************************************)
InvalHit(log, m) == \E i \in Events(log, "inval") : log[i].o = m /\ log[i].v = 1
WroteACached ==
    /\ last.op = "set" /\ last.arg = "A" /\ last.ret = 1
    /\ InvalHit(last.log, "M1") /\ InvalHit(last.log, "M2")
ClosuresInReplays(log) ==
    \A i \in Events(log, "f") : log[i].by # "" /\ log[i].c = 0

\* the closures M2.get() executes, called in the current state
NextM2Get == MemoGet("M2", Engine).st.log

C5_Memoization ==
    /\ \A i \in Events(last.log, "ret") :
        (/\ i + 1 \in Events(last.log, "get")
         /\ last.log[i + 1].o = last.log[i].o
         /\ last.log[i + 1].c = 0) =>
            /\ i + 3 \in Events(last.log, "ret")
            /\ last.log[i + 2].e = "touch" /\ last.log[i + 2].v = 1
            /\ last.log[i + 3].v = last.log[i].v
    /\ last.op = "get" =>
        /\ Count(last.log, "f", last.arg) <= 1
        /\ LET r == MemoGet(last.arg, Engine)
           IN  /\ r.val = last.ret
               /\ Events(r.st.log, "f") = {}

\* reached: a replayed R1 read M2 twice in a row; the first read ran the
\* closure, the second did not
C5_Witness ==
    \E i \in Events(last.log, "ret"), j \in Events(last.log, "f") :
        /\ j < i
        /\ last.log[j].o = "M2" /\ last.log[j].by = "R1" /\ last.log[j].c = 0
        /\ last.log[i].o = "M2" /\ last.log[i].by = "R1"
        /\ i + 1 \in Events(last.log, "get")
        /\ last.log[i + 1].o = "M2" /\ last.log[i + 1].by = "R1"

C7_SubscribedToAllReads ==
    last.op = "new" =>
        /\ \A i \in Events(last.log, "read") :
            last.log[i].by = last.arg => InSeq(last.arg, effects[last.log[i].o])
        /\ \A s \in BodyCells(EffectF(last.arg), [c \in Cells |-> ValueAt(last.log, 1, c)]) :
            InSeq(last.arg, effects[s])

\* reached: R1 was built while M2 and M1 were cached; both entries were
\* bypassed and R1 is on the list of A, read by M1's closure
C7_Witness ==
    /\ last.op = "new" /\ last.arg = "R1"
    /\ \E i, j \in Events(last.log, "touch") :
        /\ last.log[i].o = "M2" /\ last.log[i].v = 2
        /\ last.log[j].o = "M1" /\ last.log[j].v = 2
    /\ \E i \in Events(last.log, "read") : last.log[i].o = "A" /\ last.log[i].by = "R1"
    /\ InSeq("R1", effects["A"])

(***************************************************************************)
(* C8: Effect::new(f) executes f exactly once before it returns;           *)
(* Effect::new_with_deps(f, deps) executes deps exactly once and then f    *)
(* exactly once, in that order, before it returns.                         *)
(***************************************************************************)
C8_RunsOnceAtConstruction ==
    /\ last.op = "new" =>
        /\ Count(last.log, "run", last.arg) = 1
        /\ Count(last.log, "deps", last.arg) = 0
        /\ last.log[1].e = "run" /\ last.log[1].o = last.arg
    /\ last.op = "new_with_deps" =>
        /\ Count(last.log, "deps", last.arg) = 1
        /\ Count(last.log, "run", last.arg) = 1
        /\ last.log[1].e = "deps" /\ last.log[1].o = last.arg
        /\ \A i \in Events(last.log, "run") :
            last.log[i].o = last.arg =>
                \A j \in DOMAIN last.log :
                    (last.log[j].by = last.arg /\ last.log[j].c = 1) => j < i

\* reached: new_with_deps of R3 ran deps, which read B, and then f, which
\* read A and B
C8_Witness ==
    /\ last.op = "new_with_deps" /\ last.arg = "R3"
    /\ \E i, j, k \in Events(last.log, "read") :
        /\ i < j /\ j < k
        /\ last.log[i].o = "B" /\ last.log[i].c = 1
        /\ last.log[j].o = "A" /\ last.log[j].c = 0
        /\ last.log[k].o = "B" /\ last.log[k].c = 0

(***************************************************************************)
(* C9: a replay never adds the reaction to an effects list.  An Effect     *)
(* enters a list only in its own constructor, and only the lists of the    *)
(* cells its collecting pass read; afterwards its set of lists only        *)
(* shrinks.                                                                *)
(***************************************************************************)
C9_SubscriptionsFixed ==
    [][/\ \A r \in Effects, s \in Cells :
            (InSeq(r, effects'[s]) /\ ~InSeq(r, effects[s])) =>
                (last'.op \in {"new", "new_with_deps"} /\ last'.arg = r)
       /\ last'.op \in {"new", "new_with_deps"} =>
            \A s \in Cells :
                InSeq(last'.arg, effects'[s]) => s \in readNew'[last'.arg]
      ]_vars

\* reached: a set replayed R2, whose body then read B for the first time,
\* and R2 is not on B's list
C9_Witness ==
    /\ last.op = "set" /\ last.ret = 1
    /\ "R2" \in alive
    /\ \E i \in Events(last.log, "read") :
        last.log[i].o = "B" /\ last.log[i].by = "R2" /\ last.log[i].c = 0
    /\ ~InSeq("R2", effects["B"])

DepsCells(r) == BodyCells(EffectDeps(r), value)

(***************************************************************************)
(* C11: a reaction built by new_with_deps is re-run by a value-changing    *)
(* write to any cell its deps closure reads, also when the first execution *)
(* of its body, directly or through a memo, read only one of them.         *)
(***************************************************************************)
C11_RerunOnDepsCells ==
    (last.op = "set" /\ last.ret = 1) =>
        \A r \in alive \cap WithDeps :
            last.arg \in DepsCells(r) => Count(last.log, "run", r) >= 1

\* reached: R5, whose deps reads A and B and whose body has read only A
\* (through M1, while A is 0), is re-run by a write to B
C11_Witness ==
    /\ last.op = "set" /\ last.ret = 1 /\ last.arg = "B"
    /\ "R5" \in alive
    /\ DepsCells("R5") = {"A", "B"}
    /\ readEver["R5"] = {"A"}
    /\ Count(last.log, "run", "R5") = 1

C13_RerunOnBodyCell ==
    last.op = "new_with_deps" =>
        \A s \in BodyReads(last.log, last.arg) \ CollectReads(last.log, last.arg) :
            \A v \in Vals \ {value[s]} :
                Count(SignalSet(s, v, Engine).st.log, "run", last.arg) >= 1

C15_DeadReactionPruned ==
    /\ \A i \in Events(last.log, "run") : last.log[i].o \in alive
    /\ \A i \in Events(last.log, "store") :
        \A r \in Effects \ alive : ~InSeq(r, effects[last.log[i].o])
    /\ \A s \in Cells : \A v \in Vals \ {value[s]} :
        LET st == SignalSet(s, v, Engine).st
        IN  \A r \in Effects \ alive :
                /\ Count(st.log, "run", r) = 0
                /\ ~InSeq(r, st.effects[s])

\* reached: R1 was dropped while on A's list, next to a live reaction; a
\* value-changing write to A runs the live one, not R1, and removes R1's entry
C15_Witness ==
    /\ "R1" \notin alive
    /\ InSeq("R1", effects["A"])
    /\ \E r \in alive : InSeq(r, effects["A"])
    /\ \A v \in Vals \ {value["A"]} :
        LET st == SignalSet("A", v, Engine).st
        IN  /\ Events(st.log, "run") # {}
            /\ Count(st.log, "run", "R1") = 0
            /\ ~InSeq("R1", st.effects["A"])

RECURSIVE ReachedFrom(_, _)
\* observable o and the live Memos that the dependents lists of st lead to
\* from o
ReachedFrom(o, st) ==
    {o} \cup UNION {ReachedFrom(st.dependents[o][i], st) :
                        i \in {j \in DOMAIN st.dependents[o] :
                                    MemoLive(st.dependents[o][j], st)}}
NoDeadDependent(o, st) ==
    \A x \in ReachedFrom(o, st) :
        \A i \in DOMAIN st.dependents[x] : MemoLive(st.dependents[x][i], st)

(***************************************************************************)
(* C16: the invalidation traversal removes the entries of dropped Memos    *)
(* from the lists it visits: when a value-changing write to S (or an       *)
(* invalidate of S) returns, the dependents list of S and of every live    *)
(* Memo reached from S holds no entry of a dropped Memo.                   *)
(***************************************************************************)
C16_DeadDependentsPruned ==
    /\ (last.op = "invalidate" \/ (last.op = "set" /\ last.ret = 1)) =>
        NoDeadDependent(last.arg, Engine)
    /\ \A s \in Cells :
        /\ NoDeadDependent(s, invalidate(s, Engine))
        /\ \A v \in Vals \ {value[s]} :
            NoDeadDependent(s, SignalSet(s, v, Engine).st)

\* reached: M2 was dropped while on the list of the live M1, itself on A's
\* list; a value-changing write to A empties M1's list
C16_Witness ==
    /\ ~MemoLive("M2", Engine) /\ MemoLive("M1", Engine)
    /\ InSeq("M1", dependents["A"])
    /\ InSeq("M2", dependents["M1"])
    /\ \A v \in Vals \ {value["A"]} :
        LET st == SignalSet("A", v, Engine).st
        IN  /\ st.dependents["M1"] = << >>
            /\ InSeq("M1", st.dependents["A"])

(***************************************************************************)
(* C17: after a Memo is dropped the cache holds no entry under its         *)
(* identity.                                                               *)
(***************************************************************************)
C17_NoEntryAfterDrop ==
    \A m \in Memos : ~MemoLive(m, Engine) => ~CacheHas(CACHE, m)

(***************************************************************************)
(* C18: the first get() on a newly constructed Memo executes the Memo's    *)
(* own closure and returns its result, also when the Memo has the address  *)
(* of a dropped Memo.                                                      *)
(***************************************************************************)
C18_FirstGetRunsClosure ==
    last.op = "new_memo" =>
        LET r == MemoGet(last.arg, Engine)
        IN  /\ Count(r.st.log, "f", last.arg) = 1
            /\ r.val = PureEval(MemoF(last.arg), value)

\* Memo m has never read cell s, directly or through Memos: no chain of
\* dependents lists leads from s to m
NeverRead(m, s) == m \notin ReachedFrom(s, Engine)
CachedVal(c, m) == c[CacheIdx(c, m)].val
\* the entry of m is in the cache of st as it is now, and m.get() returns it
\* and the closure of m has not been executed
Kept(m, st) ==
    /\ CacheHas(st.cache, m)
    /\ CachedVal(st.cache, m) = CachedVal(CACHE, m)
    /\ MemoGet(m, st).val = CachedVal(CACHE, m)
    /\ Count(MemoGet(m, st).st.log, "f", m) = 0

C20_ForceInvalidate ==
    /\ last.op = "invalidate" =>
        /\ \A i \in DOMAIN last.log : last.log[i].e = "inval"
        /\ \A m \in ReachedFrom(last.arg, Engine) \ {last.arg} :
            /\ ~CacheHas(CACHE, m)
            /\ Count(MemoGet(m, Engine).st.log, "f", m) = 1
    /\ \A s \in Cells :
        LET st == invalidate(s, Engine)
        IN  /\ st.value = value /\ st.effects = effects
            /\ st.alive = alive /\ st.handles = handles
            /\ \A m \in ReachedFrom(s, Engine) \ {s} : ~CacheHas(st.cache, m)

\* reached: invalidate of A evicted the cached M1 and M2 while R1, on A's
\* list, was alive and was not replayed
C20_Witness ==
    /\ last.op = "invalidate" /\ last.arg = "A"
    /\ InvalHit(last.log, "M1") /\ InvalHit(last.log, "M2")
    /\ "R1" \in alive /\ InSeq("R1", effects["A"])
    /\ Events(last.log, "run") = {}

(***************************************************************************)
(* C21 as stated: during one value-changing write, a Memo that the         *)
(* replayed reactions read executes its closure at most once.              *)
(***************************************************************************)
C21_OnceInFlush ==
    (last.op = "set" /\ last.ret = 1) =>
        \A m \in Memos : Count(last.log, "f", m) <= 1

\* the reads of Memo m that a replayed reaction body made: the "touch" entries
TouchesOf(log, m) == {i \in Events(log, "touch") : log[i].o = m /\ log[i].by # ""}

(***************************************************************************)
(* C21 amended: the closure is executed at most once between two           *)
(* value-changing writes: a second execution in the same flush comes only  *)
(* after a replayed reaction body wrote, with a changed value, a cell the  *)
(* Memo read.  Short of such a write, the first read in the flush misses   *)
(* and every later read hits the cache.                                    *)
(***************************************************************************)
C21_OnceBetweenWrites ==
    (last.op = "set" /\ last.ret = 1) =>
        /\ \A i, j \in Events(last.log, "f") :
            (i < j /\ last.log[i].o = last.log[j].o) =>
                \E k \in Events(last.log, "store") :
                    /\ i < k /\ k < j
                    /\ last.log[j].o \in ReachedFrom(last.log[k].o, Engine)
        /\ Cardinality(Events(last.log, "store")) = 1 =>
            \A m \in Memos : \A i, j \in TouchesOf(last.log, m) :
                i < j => last.log[j].v = 1

\* reached: a write to A replayed R1, which read M1 through M2 and executed
\* its closure, and then R6, whose read of M1 hit the cache
C21_Witness ==
    /\ last.op = "set" /\ last.ret = 1 /\ last.arg = "A"
    /\ Count(last.log, "run", "R1") = 1 /\ Count(last.log, "run", "R6") = 1
    /\ Count(last.log, "f", "M1") = 1
    /\ \E i \in Events(last.log, "f"), j \in Events(last.log, "touch") :
        /\ i < j
        /\ last.log[i].o = "M1" /\ last.log[i].by = "R1"
        /\ last.log[j].o = "M1" /\ last.log[j].by = "R6" /\ last.log[j].v = 1

\* D.get() called in the current state, and the reads of cell s it makes
NextDGet == MemoGet("D", Engine)
ReadsIn(log, s) == Count(log, "read", s)

(***************************************************************************)
(* C22: with A = cell(10), B = cell(5), C = memo(A + B), D = memo(C * 2):  *)
(* a D.get() with neither Memo cached, the first one included, returns 30  *)
(* and reads A and B once each; a second                                   *)
(* D.get() with no writes returns the same and reads neither cell; after   *)
(* A.write(20) that evicted the cached D, D.get() returns 50, reads A once *)
(* and executes the closure of C once.  Holds for every value the cells    *)
(* take.                                                                   *)
(***************************************************************************)
C22_DiamondCounts ==
    /\ NextDGet.val = (value["A"] + value["B"]) * 2
    /\ (value["A"] = 10 /\ value["B"] = 5) => NextDGet.val = 30
    /\ (value["A"] = 20 /\ value["B"] = 5) => NextDGet.val = 50
    /\ (~CacheHas(CACHE, "C") /\ ~CacheHas(CACHE, "D")) =>
        /\ ReadsIn(NextDGet.st.log, "A") = 1
        /\ ReadsIn(NextDGet.st.log, "B") = 1
    /\ (last.op = "get" /\ last.arg = "D") =>
        /\ NextDGet.val = last.ret
        /\ Events(NextDGet.st.log, "read") = {}
        /\ Events(NextDGet.st.log, "f") = {}
    /\ (last.op = "set" /\ last.arg = "A" /\ InvalHit(last.log, "D")) =>
        /\ ReadsIn(NextDGet.st.log, "A") = 1
        /\ Count(NextDGet.st.log, "f", "C") = 1

\* reached: D was cached, A.write(20) evicted it, and the D.get() that
\* follows returns 50, reads A once and executes C's closure once
C22_Witness ==
    /\ last.op = "set" /\ last.arg = "A" /\ last.v = 20 /\ last.ret = 1
    /\ value["B"] = 5
    /\ InvalHit(last.log, "D") /\ InvalHit(last.log, "C")
    /\ NextDGet.val = 50
    /\ ReadsIn(NextDGet.st.log, "A") = 1
    /\ Count(NextDGet.st.log, "f", "C") = 1

(***************************************************************************)
(* Least-recently-used order, told from the log of an operation            *)
(***************************************************************************)
Keys(c) == [i \in DOMAIN c |-> c[i].key]
Without(keys, k) == SelectSeq(keys, LAMBDA x : x # k)
\* key k is used, by an insertion or by a hit: it becomes the most recently
\* used; an insertion into a full cache drops the least recently used key
Used(keys, k) ==
    IF InSeq(k, keys) THEN Append(Without(keys, k), k)
    ELSE IF Len(keys) >= CACHE_CAP THEN Append(Tail(keys), k)
    ELSE Append(keys, k)

\* keys2 is what n insertions of keys that were never in the cache leave of
\* keys: the n new keys are the most recently used, before them come the most
\* recently used of the old keys, as many as the capacity has room for
UsedNew(keys, n, keys2) ==
    LET k == Len(keys2) - n
    IN  /\ Len(keys2) = IF Len(keys) + n > CACHE_CAP THEN CACHE_CAP ELSE Len(keys) + n
        /\ \A i \in 1..k : keys2[i] = keys[Len(keys) - k + i]
        /\ \A i \in (k + 1)..Len(keys2) : keys2[i] = Other

RECURSIVE Replay(_, _, _)
\* the order of use after the events of the log from entry i on: a returning
\* Memo::get has inserted or hit its key, an invalidation and a bypass have
\* removed theirs
Replay(log, i, keys) ==
    IF i > Len(log) THEN keys
    ELSE Replay(log, i + 1,
            CASE log[i].e = "ret" -> Used(keys, log[i].o)
              [] log[i].e = "inval" -> Without(keys, log[i].o)
              [] log[i].e = "touch" /\ log[i].v = 2 -> Without(keys, log[i].o)
              [] OTHER -> keys)

(***************************************************************************)
(* C23: the cache never holds more than CACHE_CAP entries, at most one per *)
(* Memo; whatever the program does next, the entries left are those the    *)
(* order of use gives: an insertion into the full cache evicts exactly the *)
(* least recently inserted or hit entry, and a hit of Memo::get makes its  *)
(* entry the most recently used.                                           *)
(***************************************************************************)
C23_LruBound ==
    /\ Len(CACHE) <= CACHE_CAP
    /\ \A i, j \in DOMAIN CACHE :
        (CACHE[i].key = CACHE[j].key /\ CACHE[i].key # Other) => i = j
    /\ \A m \in CoreMemos :
        LET g == MemoGet(m, Engine).st
        IN  /\ Keys(g.cache) = Replay(g.log, 1, Keys(CACHE))
            /\ g.cache[Len(g.cache)].key = m
    /\ \A s \in Cells, v \in Vals :
        LET w == SignalSet(s, v, Engine).st
        IN  Keys(w.cache) = Replay(w.log, 1, Keys(CACHE))
    /\ UsedNew(Keys(CACHE), FillSize, Keys(OtherMemoGets(FillSize, Engine).cache))

\* reached: M2 was cached after M1, a hit of M1.get() promoted M1, and the
\* reads of other memos that now fill the cache evict M2 and keep M1
C23_Witness ==
    /\ last.op = "get" /\ last.arg = "M1"
    /\ \E i \in Events(last.log, "touch") : last.log[i].v = 1
    /\ Keys(CACHE) = <<"M2", "M1">>
    /\ LET c == OtherMemoGets(FillSize, Engine).cache
       IN  /\ Len(c) = CACHE_CAP
           /\ CacheHas(c, "M1")
           /\ ~CacheHas(c, "M2")

\* the state after the program has read FillSize other memos once each
Filled == OtherMemoGets(FillSize, Engine)
\* Memo::get on m in state st executes the closure of m
Recomputes(m, st) == Count(MemoGet(m, st).st.log, "f", m) = 1

(***************************************************************************)
(* C24: when the program has read CACHE_CAP + 1 memos that do not read     *)
(* each other, each once, the entry of the memo read first is evicted and  *)
(* its next get() executes its closure again, while the other entries are  *)
(* all cached: their next get() executes no closure, until the insertion   *)
(* of a later result evicts them.                                          *)
(***************************************************************************)
C24_OneOverCapacity ==
    \A x, y \in FillMemos :
        (Keys(CACHE) = <<x, y>> /\ last.op = "get" /\ last.arg = y) =>
            /\ Len(Filled.cache) = CACHE_CAP
            /\ ~CacheHas(Filled.cache, x)
            /\ Recomputes(x, Filled)
            /\ CacheHas(Filled.cache, y)
            /\ ~Recomputes(y, Filled)
            /\ MemoGet(y, Filled).val = CachedVal(CACHE, y)
            /\ Cardinality({i \in DOMAIN Filled.cache : Filled.cache[i].key = Other})
                    = FillSize
            /\ Recomputes(y, MemoGet(x, Filled).st)

\* reached: M3 was read, then M1; after the reads of the other memos the
\* entry of M3 is gone and M3.get() executes its closure, M1's entry is hit
C24_Witness ==
    /\ Keys(CACHE) = <<"M3", "M1">>
    /\ last.op = "get" /\ last.arg = "M1" /\ Count(last.log, "f", "M1") = 1
    /\ Len(CACHE) + FillSize = CACHE_CAP + 1
    /\ ~CacheHas(Filled.cache, "M3") /\ Recomputes("M3", Filled)
    /\ CacheHas(Filled.cache, "M1") /\ ~Recomputes("M1", Filled)

\* entry k of the log is the store of the write that entry i began
StoreOf(log, i, k) ==
    /\ k > i /\ log[k].e = "store" /\ log[k].o = log[i].o
    /\ \A j \in (i + 1)..(k - 1) : log[j].e = "inval"
\* the last store to cell s before entry j of the log, 0 if there is none
LastStore(log, j, s) ==
    LET before == {k \in Events(log, "store") : k < j /\ log[k].o = s}
    IN  IF before = {} THEN 0 ELSE CHOOSE k \in before : \A k2 \in before : k2 <= k

(***************************************************************************)
(* C25: a value-changing Signal::set, the nested ones included, first      *)
(* evicts every live Memo reached from the cell, with nothing else in      *)
(* between, then stores the value, and only then replays reactions.  So a  *)
(* replayed body reads from a written cell the value stored last, and its  *)
(* first read of an evicted Memo after the store misses: every result it   *)
(* gets is computed from the cell values of that moment.                   *)
(***************************************************************************)
C25_InvalidateStoreReplay ==
    /\ \A s \in Cells : \A v \in Vals \ {value[s]} :
        LET log == SignalSet(s, v, Engine).st.log
        IN  \E k \in DOMAIN log :
                /\ StoreOf(log, 1, k)
                /\ \A m \in ReachedFrom(s, Engine) \ Cells :
                    \E j \in 2..(k - 1) : log[j].o = m
    /\ last.op = "set" =>
        /\ \A i \in Events(last.log, "changing") :
            \E k \in DOMAIN last.log : StoreOf(last.log, i, k)
        /\ \A j \in Events(last.log, "run") :
            \E k \in Events(last.log, "store") : k < j
        /\ \A j \in Events(last.log, "read") :
            LastStore(last.log, j, last.log[j].o) # 0 =>
                last.log[j].v = last.log[LastStore(last.log, j, last.log[j].o)].v
        /\ \A j \in Events(last.log, "ret") :
            last.log[j].v =
                PureEval(MemoF(last.log[j].o), [s \in Cells |-> ValueAt(last.log, j, s)])
        /\ \A i \in Events(last.log, "inval"), j \in Events(last.log, "touch") :
            (/\ i < j /\ last.log[i].o = last.log[j].o /\ last.log[j].v = 1) =>
                \E f \in Events(last.log, "f") :
                    i < f /\ f < j /\ last.log[f].o = last.log[j].o

\* reached: a write to A evicted the cached M1 and M2, stored the value and
\* replayed R1, which read the new value of A in the closure of M1
C25_Witness ==
    /\ last.op = "set" /\ last.arg = "A" /\ last.ret = 1
    /\ \E i, k, r, j \in DOMAIN last.log :
        /\ i < k /\ k < r /\ r < j
        /\ last.log[i].e = "inval" /\ last.log[i].o = "M1" /\ last.log[i].v = 1
        /\ last.log[k].e = "store" /\ last.log[k].o = "A"
        /\ last.log[r].e = "run" /\ last.log[r].o = "R1"
        /\ last.log[j].e = "read" /\ last.log[j].o = "A" /\ last.log[j].by = "R1"
        /\ last.log[j].v = last.v

\* the entry of the log at which the Memo::get begun at entry i returns: the
\* first later "ret" of the same Memo that closes no get begun in between
RetOf(log, i) ==
    CHOOSE j \in Events(log, "ret") :
        /\ j > i /\ log[j].o = log[i].o
        /\ Cardinality({k \in Events(log, "get") : i < k /\ k < j /\ log[k].o = log[i].o})
            = Cardinality({k \in Events(log, "ret") : i < k /\ k < j /\ log[k].o = log[i].o})

(***************************************************************************)
(* C26: while the top of the effect stack has collecting = true, every     *)
(* Memo::get, read by the Effect closure itself or inside the closure of   *)
(* another Memo, misses: an entry the cache has for the Memo is removed,   *)
(* the closure is executed, and its result is stored.                      *)
(***************************************************************************)
C26_CollectingBypass ==
    \A i \in Events(last.log, "get") :
        last.log[i].c = 1 =>
            /\ last.log[i + 1].e = "touch" /\ last.log[i + 1].o = last.log[i].o
            /\ last.log[i + 1].v \in {2, 3}
            /\ last.log[i + 2].e = "f" /\ last.log[i + 2].o = last.log[i].o
            /\ (\A k \in DOMAIN last.log :
                    (k > RetOf(last.log, i) /\ last.log[k].o = last.log[i].o)
                        => last.log[k].e \notin {"touch", "inval"})
                => /\ CacheHas(CACHE, last.log[i].o)
                   /\ CachedVal(CACHE, last.log[i].o) = last.log[RetOf(last.log, i)].v

\* reached: Effect::new(R1) with M2 and M1 cached: the read of M2 and, inside
\* its closure, the read of M1 each removed the entry and ran the closure
C26_Witness ==
    /\ last.op = "new" /\ last.arg = "R1"
    /\ \E i, j \in Events(last.log, "touch") :
        /\ i < j
        /\ last.log[i].o = "M2" /\ last.log[i].v = 2 /\ last.log[i].c = 1
        /\ last.log[j].o = "M1" /\ last.log[j].v = 2 /\ last.log[j].c = 1
        /\ last.log[i + 1].e = "f" /\ last.log[j + 1].e = "f"
        /\ Len(MEMO_STACK) = 0
    /\ CacheHas(CACHE, "M1") /\ CacheHas(CACHE, "M2")

(***************************************************************************)
(* C27: subscriptions and the cache bypass go by the top entry of the      *)
(* effect stack only.  When Effect::new(r) returns: r is subscribed to     *)
(* exactly the cells its own closure read, not to those read by a reaction *)
(* its closure replayed by a write or constructed; a replayed reaction     *)
(* gains no subscription and its Memo reads use the cache; a constructed   *)
(* reaction is subscribed to exactly the cells its closure read; and the   *)
(* reads r makes after the inner reaction has returned bypass the cache    *)
(* and subscribe r again.                                                  *)
(***************************************************************************)
C27_InnermostOnly ==
    /\ last.op = "new" =>
        /\ \A x \in Creates(last.arg), s \in Cells :
            InSeq(x, effects[s]) <=>
                \E i \in Events(last.log, "read") :
                    /\ last.log[i].o = s
                    /\ last.log[i].by = x /\ last.log[i].c = 1
        /\ \A i \in Events(last.log, "touch") :
            /\ last.log[i].c = 1 => last.log[i].v \in {2, 3}
            /\ last.log[i].c = 0 => last.log[i].v \in {0, 1}
        /\ \A i \in Events(last.log, "run") :
            /\ last.log[i].by = last.log[i].o
            /\ last.log[i].c = Bool(last.log[i].o \in Creates(last.arg))
        /\ (last.arg = "R7") =>
            \A s \in Cells :
                /\ InSeq("R2", effects[s]) <=> s \in BodyCells(EffectF("R2"), value)
                /\ InSeq("R7", effects[s]) <=> s \in PureReads(<<"memo", "M3">>, value)
    /\ \A r \in NestEffects :
        (Creates(r) \cap Allocated = {} /\ Captures(EffectF(r)) \subseteq handles) =>
            \A x \in alive, s \in Cells :
                InSeq(x, EffectNew(r, Engine).effects[s]) <=> InSeq(x, effects[s])

\* reached: Effect::new(R7) with A # 0 and M3 cached: the closure constructed
\* R2, which read A and B and is subscribed to both; then it read M3, whose
\* entry was removed and whose closure read B: R7 is subscribed to B only
C27_Witness ==
    /\ last.op = "new" /\ last.arg = "R7" /\ value["A"] # 0
    /\ InSeq("R2", effects["A"]) /\ InSeq("R2", effects["B"])
    /\ InSeq("R7", effects["B"]) /\ ~InSeq("R7", effects["A"])
    /\ \E i, j \in DOMAIN last.log :
        /\ i < j
        /\ last.log[i].e = "read" /\ last.log[i].o = "A" /\ last.log[i].by = "R2"
        /\ last.log[j].e = "touch" /\ last.log[j].o = "M3" /\ last.log[j].by = "R7"
        /\ last.log[j].v = 2

\* the operations the program can call in the current state, as results
\* [st, val] or new states
CanBuild(r) ==
    /\ Creates(r) \cap Allocated = {}
    /\ Captures(EffectF(r)) \subseteq handles
SameStacks(st) == st.memo_stack = MEMO_STACK /\ st.effect_stack = EFFECT_STACK

\* the first entry of the frame that made entry k of the log: the last
\* start of a closure, f or deps, of the Effect on top of the stack
FrameOf(log, k) ==
    LET runs == {i \in Events(log, "run") \cup Events(log, "deps") :
                    i <= k /\ log[i].o = log[k].by}
    IN  CHOOSE i \in runs : \A i2 \in runs : i2 <= i

(***************************************************************************)
(* C28: both stacks are empty between the operations of the program, and   *)
(* every Signal::get, Signal::set, Memo::get, Effect::new and              *)
(* Effect::new_with_deps leaves them as it found them, when the program    *)
(* calls it and when a closure calls it: a Memo::get returns with the      *)
(* stacks it was called with and pops the entry it pushed, which stayed in *)
(* its place all the while, and after a call made inside an Effect closure *)
(* the closure goes on with the stacks it had when it started.             *)
(***************************************************************************)
C28_StacksBalanced ==
    /\ MEMO_STACK = << >> /\ EFFECT_STACK = << >>
    /\ \A s \in Cells : SameStacks(SignalGet(s, Engine).st)
    /\ \A v \in Vals : SameStacks(SignalSet("A", v, Engine).st)
    /\ \A m \in NestMemos : SameStacks(MemoGet(m, Engine).st)
    /\ \A r \in NestEffects : CanBuild(r) => SameStacks(EffectNew(r, Engine))
    /\ CanBuild("R5") => SameStacks(EffectNewWithDeps("R5", Engine))
    /\ Events(last.log, "mispop") = {}
    /\ \A i \in Events(last.log, "get") :
        LET j == RetOf(last.log, i)
        IN  /\ last.log[j].ms = last.log[i].ms
            /\ last.log[j].ed = last.log[i].ed
            /\ last.log[j].by = last.log[i].by /\ last.log[j].c = last.log[i].c
            /\ \A k \in (i + 1)..(j - 1) :
                /\ Len(last.log[k].ms) > Len(last.log[i].ms)
                /\ SubSeq(last.log[k].ms, 1, Len(last.log[i].ms) + 1)
                    = Append(last.log[i].ms, last.log[i].o)
    /\ \A k \in DOMAIN last.log :
        last.log[k].by # "" =>
            /\ last.log[k].ed = last.log[FrameOf(last.log, k)].ed
            /\ Len(last.log[k].ms) >= Len(last.log[FrameOf(last.log, k)].ms)
            /\ SubSeq(last.log[k].ms, 1, Len(last.log[FrameOf(last.log, k)].ms))
                = last.log[FrameOf(last.log, k)].ms

\* reached: Effect::new(R7) returned with both stacks empty; its closure
\* constructed R2, which ran with two entries on the effect stack, and then
\* read B inside the closure of M3, with one entry on each stack
C28_Witness ==
    /\ last.op = "new" /\ last.arg = "R7"
    /\ MEMO_STACK = << >> /\ EFFECT_STACK = << >>
    /\ \E i, k \in DOMAIN last.log :
        /\ i < k
        /\ last.log[i].e = "run" /\ last.log[i].o = "R2" /\ last.log[i].ed = 2
        /\ last.log[k].e = "read" /\ last.log[k].by = "R7" /\ last.log[k].ed = 1
        /\ last.log[k].ms = <<"M3">>

(***************************************************************************)
(* C29: in every operation of the program, with writes and constructions   *)
(* inside Effect closures, no expect or assert of Effect::run and          *)
(* effect_pop fails: when a closure starts, the top of the effect stack is *)
(* its Effect, which is alive, and every effect_pop finds the entry of its *)
(* push.                                                                   *)
(***************************************************************************)
C29_AssertionsHold ==
    /\ Events(last.log, "panic") = {}
    /\ \A i \in Events(last.log, "run") \cup Events(last.log, "deps") :
        /\ last.log[i].ed >= 1
        /\ last.log[i].by = last.log[i].o
    /\ \A v \in Vals : Events(SignalSet("A", v, Engine).st.log, "panic") = {}
    /\ \A r \in NestEffects :
        CanBuild(r) => Events(EffectNew(r, Engine).log, "panic") = {}
    /\ CanBuild("R5") => Events(EffectNewWithDeps("R5", Engine).log, "panic") = {}

\* reached: Effect::new(R8) wrote A in its collecting pass and the write
\* replayed a live Effect on top of R8's entry
C29_Witness ==
    /\ last.op = "new" /\ last.arg = "R8"
    /\ \E i, j, k \in DOMAIN last.log :
        /\ i < j /\ j < k
        /\ last.log[i].e = "run" /\ last.log[i].o = "R8" /\ last.log[i].ed = 1
        /\ last.log[i].c = 1
        /\ last.log[j].e = "changing" /\ last.log[j].by = "R8"
        /\ last.log[k].e = "run" /\ last.log[k].o # "R8" /\ last.log[k].ed = 2
        /\ last.log[k].c = 0 /\ last.log[k].o \in alive
    /\ EFFECT_STACK = << >>

(***************************************************************************)
(* The lists that the rule of registration gives, told from the log        *)
(***************************************************************************)
AddOnce(list, x) == IF InSeq(x, list) THEN list ELSE Append(list, x)
NoDup(list) == \A i, j \in DOMAIN list : list[i] = list[j] => i = j

RECURSIVE ExpEffects(_, _, _)
\* the effects lists after the entries of the log from i on: a Signal::get
\* under a collecting top adds the top to the list of the cell, once
ExpEffects(log, i, eff) ==
    IF i > Len(log) THEN eff
    ELSE ExpEffects(log, i + 1,
            IF log[i].e = "read" /\ log[i].by # "" /\ log[i].c = 1
            THEN [eff EXCEPT ![log[i].o] = AddOnce(@, log[i].by)]
            ELSE eff)

RECURSIVE ExpDependents(_, _, _)
\* the dependents lists after the entries of the log from i on: a Signal::get
\* or Memo::get called with a Memo on top of the memo stack adds that Memo to
\* the list of the observable, once
ExpDependents(log, i, dep) ==
    IF i > Len(log) THEN dep
    ELSE ExpDependents(log, i + 1,
            IF log[i].e \in {"read", "get"} /\ log[i].ms # << >>
            THEN [dep EXCEPT ![log[i].o] = AddOnce(@, log[i].ms[Len(log[i].ms)])]
            ELSE dep)

\* state st, the result of an operation that wrote no cell, has the lists
\* that the rule gives from the lists of the current state
ListsByRule(st) ==
    /\ st.effects = ExpEffects(st.log, 1, effects)
    /\ st.dependents = ExpDependents(st.log, 1, dependents)

(***************************************************************************)
(* C30: Signal::get adds the Memo on top of the memo stack to the          *)
(* dependents of the cell iff there is one and it is not listed, and the   *)
(* Effect on top of the effect stack to the effects of the cell iff its    *)
(* entry is collecting and it is not listed; called by the program, with   *)
(* both stacks empty, it changes no list.  No list holds an identity       *)
(* twice.                                                                  *)
(***************************************************************************)
C30_RegistrationRule ==
    /\ \A o \in Observables : NoDup(dependents[o])
    /\ \A s \in Cells : NoDup(effects[s])
    /\ \A s \in Cells :
        /\ SignalGet(s, Engine).st.effects = effects
        /\ SignalGet(s, Engine).st.dependents = dependents
    /\ \A m \in NestMemos : ListsByRule(MemoGet(m, Engine).st)
    /\ \A r \in NestEffects :
        (CanBuild(r) /\ Events(EffectNew(r, Engine).log, "store") = {}) =>
            ListsByRule(EffectNew(r, Engine))
    /\ CanBuild("R5") => ListsByRule(EffectNewWithDeps("R5", Engine))

\* reached: Effect::new(R1) read A twice in its collecting pass, both times
\* inside the closure of M1 read by M2; R1 is once on the effects of A and M1
\* is once on its dependents
C30_Witness ==
    /\ last.op = "new" /\ last.arg = "R1"
    /\ \E i, j \in Events(last.log, "read") :
        /\ i < j
        /\ last.log[i].o = "A" /\ last.log[i].by = "R1" /\ last.log[i].c = 1
        /\ last.log[j].o = "A" /\ last.log[j].by = "R1" /\ last.log[j].c = 1
        /\ last.log[i].ms = <<"M2", "M1">> /\ last.log[j].ms = <<"M2", "M1">>
    /\ Cardinality({i \in DOMAIN effects["A"] : effects["A"][i] = "R1"}) = 1
    /\ Cardinality({i \in DOMAIN dependents["A"] : dependents["A"][i] = "M1"}) = 1

(***************************************************************************)
(* C31: a dependency edge goes to the immediate caller.  Every operation   *)
(* adds to the dependents of an observable exactly the Memos that were on  *)
(* top of the memo stack when the observable was read (a cell by           *)
(* Signal::get, a Memo by Memo::get), never a Memo further down the stack; *)
(* and the Memo on top when Memo::get of X is called is among the          *)
(* dependents of X afterwards also when the lookup that follows is a hit.  *)
(***************************************************************************)
Range(list) == {list[i] : i \in DOMAIN list}
\* the Memos that were on top of the memo stack at the reads of o in the log
Callers(log, o) ==
    {log[i].ms[Len(log[i].ms)] :
        i \in {j \in DOMAIN log : /\ log[j].e \in {"read", "get"}
                                  /\ log[j].o = o
                                  /\ log[j].ms # << >>}}
C31_ImmediateCaller ==
    [][/\ \A o \in Observables :
            Range(dependents'[o]) = Range(dependents[o]) \cup Callers(last'.log, o)
       /\ \A i \in Events(last'.log, "get") :
            (/\ last'.log[i].ms # << >>
             /\ last'.log[i + 1].e = "touch" /\ last'.log[i + 1].v = 1)
            => InSeq(last'.log[i].ms[Len(last'.log[i].ms)],
                     dependents'[last'.log[i].o])]_vars

\* reached: M2 was read for the first time while M1 was cached: M1 was served
\* from the cache with M2 on top of the stack and M2 is now its dependent;
\* and another operation read A with M1 on top of M2: A has M1 as a
\* dependent and not M2
C31_Witness ==
    /\ last.op = "get" /\ last.arg = "M2"
    /\ \E i \in Events(last.log, "get") :
        /\ last.log[i].o = "M1" /\ last.log[i].ms = <<"M2">>
        /\ last.log[i + 1].e = "touch" /\ last.log[i + 1].v = 1
    /\ InSeq("M2", dependents["M1"])
    /\ InSeq("M1", dependents["A"]) /\ ~InSeq("M2", dependents["A"])

(***************************************************************************)
(* C32: when invalidate on a cell or on a Memo returns, the cache holds no *)
(* entry of a live Memo that the dependents lists lead to from it; and an  *)
(* entry that an invalidation removed stays absent until Memo::get of that *)
(* Memo has executed the closure and stored the result: no lookup hits in  *)
(* between, in the same operation or in a later one.                       *)
(***************************************************************************)
\* entry k of the log is a lookup of m that hit
HitAt(log, k, m) == log[k].e = "touch" /\ log[k].o = m /\ log[k].v = 1
\* the closure of m started between entries i and k of the log
RanBetween(log, i, k, m) ==
    \E j \in Events(log, "f") : log[j].o = m /\ i < j /\ j < k
\* the last invalidation of m in the log has no execution of its closure
\* after it
LeftInvalid(log, m) ==
    \E i \in Events(log, "inval") :
        /\ log[i].o = m
        /\ \A j \in Events(log, "f") : log[j].o = m => j < i
C32_AbsentUntilStored ==
    /\ [](\A o \in Observables :
            \A m \in ReachedFrom(o, Engine) \ {o} :
                ~CacheHas(invalidate(o, Engine).cache, m))
    /\ [][\A m \in Memos :
            /\ (~CacheHas(CACHE, m) /\ CacheHas(CACHE', m)) =>
                    Count(last'.log, "f", m) >= 1
            /\ \A i \in Events(last'.log, "inval"), k \in DOMAIN last'.log :
                    (last'.log[i].o = m /\ i < k /\ HitAt(last'.log, k, m))
                    => RanBetween(last'.log, i, k, m)
            /\ LeftInvalid(last'.log, m) => ~CacheHas(CACHE', m)]_vars

\* reached: a write evicted the cached M2 and M1; the replayed R1 read M2
\* twice: the closure of M2 ran at the first read and the second was a hit
C32_Witness ==
    /\ last.op = "set" /\ last.ret = 1
    /\ \E i \in Events(last.log, "inval"), k \in DOMAIN last.log :
        /\ last.log[i].o = "M2" /\ last.log[i].v = 1 /\ i < k
        /\ HitAt(last.log, k, "M2")
        /\ RanBetween(last.log, i, k, "M2")
    /\ CacheHas(CACHE, "M2")

(***************************************************************************)
(* C33: a reaction whose body writes, with a changed value, a cell it is   *)
(* subscribed to makes the write, the flush and the replay recur without   *)
(* bound once the cell is written; nothing detects, stops or aborts the    *)
(* recursion.  In a log: a write that stores into a cell for the second    *)
(* time in one operation (the body replayed by the first write wrote the   *)
(* cell again) is followed by the replay of the subscribers of the cell,   *)
(* and the operation does not panic.                                       *)
(***************************************************************************)
\* entry i of the log stores into a cell that an earlier entry stored into
StoredAgain(log, i) ==
    /\ log[i].e = "store"
    /\ \E j \in Events(log, "store") : j < i /\ log[j].o = log[i].o
C33_UnboundedRecursion ==
    \A i \in DOMAIN last.log :
        StoredAgain(last.log, i) =>
            /\ i < Len(last.log) /\ last.log[i + 1].e = "run"
            /\ Events(last.log, "panic") = {}

(***************************************************************************)
(* C35: an Effect constructed inside the body of a reaction that the flush *)
(* of cell S is replaying, and whose collecting pass reads S, is           *)
(* constructed without a panic and is subscribed to S afterwards.  In a    *)
(* log: when a write has run the constructor of an Effect, the write did   *)
(* not panic and the Effect is on the effects list of every cell its       *)
(* closure reads.                                                          *)
(***************************************************************************)
C35_NestedConstructionCompletes ==
    last.op = "set" =>
        \A r \in Built(last.log) :
            /\ Events(last.log, "panic") = {}
            /\ \A s \in BodyCells(EffectF(r), value) : InSeq(r, effects[s])

(***************************************************************************)
(* C34: with Memo closures that write no cell, an acyclic Memo graph and   *)
(* reaction bodies that write only cells which do not trigger them again,  *)
(* every Signal::set returns, and when it returns the whole propagation is *)
(* done: for the write and for every nested write, every Memo reached from *)
(* the cell was invalidated before the value was stored and every live     *)
(* subscriber of the cell was replayed after it, one level deeper; no      *)
(* flush and no constructor is left in progress, both stacks are as        *)
(* before, and the replays never nest deeper than the number of cells.     *)
(***************************************************************************)
\* the write of log entry i (a "changing" entry) invalidated the Memos ms
\* before it stored
InvalidatedBy(log, i, ms) ==
    \E k \in DOMAIN log :
        /\ StoreOf(log, i, k)
        /\ \A m \in ms : \E j \in (i + 1)..(k - 1) : log[j].o = m
\* the store of log entry i was followed by a replay of Effect r, one level
\* deeper than the write
ReplayedAfter(log, i, r) ==
    \E j \in Events(log, "run") :
        j > i /\ log[j].o = r /\ log[j].c = 0 /\ log[j].ed = log[i].ed + 1
C34_WriteTerminates ==
    \A s \in Cells : \A v \in Vals \ {value[s]} :
        LET st == SignalSet(s, v, Engine).st
        IN  /\ st.fault = << >>
            /\ st.flushing = << >> /\ st.building = {}
            /\ st.effect_stack = EFFECT_STACK /\ st.memo_stack = MEMO_STACK
            /\ \A i \in DOMAIN st.log : st.log[i].ed <= Cardinality(Cells)
            /\ \A i \in Events(st.log, "changing") :
                InvalidatedBy(st.log, i, ReachedFrom(st.log[i].o, Engine) \ Cells)
            /\ \A i \in Events(st.log, "store") : \A r \in alive :
                InSeq(r, effects[st.log[i].o]) => ReplayedAfter(st.log, i, r)

\* reached: a write to A replayed R4, whose body wrote B; the nested write
\* evicted the recomputed M1 and replayed R1 a second time, two levels deep,
\* and the write returned
C34_Witness ==
    /\ last.op = "set" /\ last.arg = "A" /\ last.ret = 1
    /\ \E i \in Events(last.log, "store") :
        /\ last.log[i].o = "B" /\ last.log[i].by = "R4" /\ last.log[i].ed = 1
        /\ \E j \in Events(last.log, "inval") :
            j < i /\ last.log[j].o = "M1" /\ last.log[j].v = 1 /\ last.log[j].by = "R4"
        /\ ReplayedAfter(last.log, i, "R1")
    /\ EFFECT_STACK = << >> /\ MEMO_STACK = << >>

(***************************************************************************)
(* C36: a value-changing write replays the live reactions of the cell one  *)
(* at a time, in the order in which they first subscribed to the cell,     *)
(* each replay running to completion before the next begins.  The effects  *)
(* list of a cell is in subscription order: a step keeps the order of the  *)
(* entries it keeps and puts a new entry after them; the replays of a      *)
(* write are the live entries of the list, in the order of the list; and   *)
(* everything a replayed body does lies between its start and the start of *)
(* the next replay.                                                        *)
(***************************************************************************)
\* the positions of the log where the flush of the cell written by the
\* program starts a replay
TopRuns(log) == {j \in Events(log, "run") : log[j].c = 0 /\ log[j].ed = 1}
RECURSIVE Ascending(_)
\* the elements of a set of numbers in increasing order
Ascending(S) ==
    IF S = {} THEN << >>
    ELSE LET x == CHOOSE y \in S : \A z \in S : y <= z
         IN  <<x>> \o Ascending(S \ {x})
\* the Effects that the flush of the cell written by the program replayed,
\* in the order of the replays
Replayed(log) == [k \in DOMAIN Ascending(TopRuns(log)) |-> log[Ascending(TopRuns(log))[k]].o]
\* list b keeps the order of the entries it has of list a, and has its other
\* entries after them
KeepsOrder(a, b) ==
    /\ \A i, j \in DOMAIN b :
        (i < j /\ InSeq(b[i], a) /\ InSeq(b[j], a)) =>
            \E k, l \in DOMAIN a : k < l /\ a[k] = b[i] /\ a[l] = b[j]
    /\ \A i, j \in DOMAIN b : (InSeq(b[i], a) /\ ~InSeq(b[j], a)) => i < j
\* what the body of each replay does at its own level lies before the next
\* replay starts
OneAtATime(log) ==
    \A j1, j2 \in TopRuns(log) : j1 < j2 =>
        \A k \in DOMAIN log :
            (log[k].by = log[j1].o /\ log[k].ed = 1 /\ k >= j1) => k < j2
C36_SubscriptionOrder ==
    /\ [](\A s \in Cells : \A v \in Vals \ {value[s]} :
            LET log == SignalSet(s, v, Engine).st.log
            IN  /\ Replayed(log) = SelectSeq(effects[s], LAMBDA r : r \in alive)
                /\ OneAtATime(log))
    /\ [][\A s \in Cells : KeepsOrder(effects[s], effects'[s])]_vars

\* reached: R1 subscribed to A after R4 did; the write to A replayed R4,
\* whose body wrote B and so replayed R1 inside it, and then replayed R1
C36_Witness ==
    /\ last.op = "set" /\ last.arg = "A" /\ last.ret = 1
    /\ Replayed(last.log) = <<"R4", "R1">>
    /\ effects["A"] = <<"R4", "R1">>
    /\ \E j \in Events(last.log, "run") :
        /\ last.log[j].o = "R1" /\ last.log[j].ed = 2
        /\ \E k \in TopRuns(last.log) : j < k /\ last.log[k].o = "R1"

(***************************************************************************)
(* C37 as stated: Memo::get called while a collecting reaction is on top   *)
(* of the effect stack registers that reaction with the Memo itself, as a  *)
(* cell read does with the cell.                                           *)
(***************************************************************************)
\* Effect r is on the effects list of observable o.  Only a Signal has an
\* effects list; a Memo has the fields f, dependents and weak
Registered(r, o) == o \in DOMAIN effects /\ InSeq(r, effects[o])
C37_RegistersWithMemo ==
    last.op = "new" =>
        \A i \in Events(last.log, "get") :
            last.log[i].c = 1 => Registered(last.log[i].by, last.log[i].o)

(***************************************************************************)
(* C37 amended: Memo::get called while a collecting reaction is on top of  *)
(* the effect stack registers the calling Memo, if there is one, as a      *)
(* dependent of the Memo, and registers the reaction with no Memo: the     *)
(* lookup is forced to miss, the closure runs, and the reaction is         *)
(* registered with every cell the closure reads, directly or through other *)
(* Memos.                                                                  *)
(***************************************************************************)
C37_RegistersThroughCells ==
    last.op = "new" =>
        \A i \in Events(last.log, "get") :
            last.log[i].c = 1 =>
                LET r == last.log[i].by
                    m == last.log[i].o
                    ms == last.log[i].ms
                IN  /\ ms # << >> => InSeq(ms[Len(ms)], dependents[m])
                    /\ ~Registered(r, m)
                    /\ \A k \in Events(last.log, "read") :
                        (i < k /\ k < RetOf(last.log, i)) =>
                            /\ last.log[k].by = r /\ last.log[k].c = 1
                            /\ Registered(r, last.log[k].o)
                    /\ \A s \in PureReads(<<"memo", m>>,
                                          [c \in Cells |-> ValueAt(last.log, i, c)]) :
                        Registered(r, s)

\* reached: Effect::new(R1) read M2 while M2 and M1 were cached and A was
\* not 0: R1 is on the lists of A and B, which the closure of M1 read, and
\* M2 is a dependent of M1
C37_Witness ==
    /\ last.op = "new" /\ last.arg = "R1"
    /\ \E i \in Events(last.log, "get") :
        /\ last.log[i].o = "M1" /\ last.log[i].c = 1 /\ last.log[i].ms = <<"M2">>
        /\ last.log[i + 1].e = "touch" /\ last.log[i + 1].v = 2
    /\ Registered("R1", "A") /\ Registered("R1", "B")
    /\ InSeq("M2", dependents["M1"])

(***************************************************************************)
(* C38: a lookup that finds, under the key of a Memo, a value of another   *)
(* type than the Memo's result type is a miss and not an error:            *)
(* Memo::get executes the closure once, returns its result with no panic,  *)
(* and the result replaces the entry; the next get() is a hit.             *)
(***************************************************************************)
\* the cache has, under the key of Memo m, a value that is not of m's type
Mismatch(c, m) == CacheHas(c, m) /\ c[CacheIdx(c, m)].ty # TypeOf(m)
C38_MismatchIsMiss ==
    \A m \in TypeMemos :
        (m \in handles /\ Mismatch(CACHE, m)) =>
            LET r == MemoGet(m, Engine)
            IN  /\ r.st.fault = << >>
                /\ Count(r.st.log, "f", m) = 1
                /\ r.val = PureEval(MemoF(m), value)
                /\ ~Mismatch(r.st.cache, m)
                /\ CachedVal(r.st.cache, m) = r.val
                /\ Len(r.st.cache) = Len(CACHE)
                /\ Cardinality({i \in DOMAIN r.st.cache : r.st.cache[i].key = m}) = 1
                /\ MemoGet(m, r.st).val = r.val
                /\ Count(MemoGet(m, r.st).st.log, "f", m) = 1

\* reached: the new M1, a Memo<i32>, had the address of the dropped M3, a
\* Memo<i64>; its get() found the entry of M3, ran the closure and stored the
\* result in its place
C38_Witness ==
    /\ last.op = "get" /\ last.arg = "M1"
    /\ \E i \in Events(last.log, "touch") : last.log[i].o = "M1" /\ last.log[i].v = 4
    /\ Count(last.log, "f", "M1") = 1
    /\ CacheHas(CACHE, "M1") /\ ~Mismatch(CACHE, "M1")

====
